---------------------------- MODULE Spec2Model ----------------------------
(***************************************************************************)
(* Model of the Vertex ML metadata layer of fancy_fashion:                 *)
(*   utils/metadata/expr.py    filter expressions and context ids          *)
(*   utils/metadata/model.py   record models and their derived fields      *)
(*   utils/metadata/client.py  the list operations of the metadata client  *)
(*                                                                         *)
(* A Python str is modelled as a sequence of one-character strings, so      *)
(* that split, rsplit, join and the f-string renderings are computed        *)
(* character by character, the way the interpreter computes them.          *)
(***************************************************************************)
EXTENDS Integers, Sequences, FiniteSets, TLC

VARIABLES
    stack,      \* expr.py: the expression objects the caller currently holds
    rendered,   \* expr.py: the result of the last str(expr) call
    record,     \* model.py: the external record handed to from_record
    result,     \* model.py: what from_record returned or raised
    stream,     \* model.py: a from_records generator and its consumer
    client,     \* client.py: the fields of the VertexMlMetadataClient
    gen,        \* client.py: the generator the last list call returned
    requests,   \* client.py: the requests sent to the metadata service so far
    service,    \* client.py: the metadata service a list operation talks to
    listing,    \* client.py: a list operation's generator and its consumer
    heap,       \* expr.py: the expression objects alive, by identity
    applied,    \* expr.py: the combinator applications made so far
    instances,  \* model.py: the arguments of a to_dataframe call
    frame,      \* model.py: the DataFrame to_dataframe returned
    invocation, \* main.py: the request process_request is handling
    response,   \* main.py: what process_request returned or raised
    downloads,  \* main.py: the pipeline definitions fetched so far
    jobs        \* main.py: the pipeline jobs submitted so far

exprVars == <<stack, rendered>>
recVars  == <<record, result>>
cliVars  == <<client, gen, requests>>
listVars == <<service, listing>>
heapVars == <<heap, applied>>
frameVars == <<instances, frame>>
fnVars   == <<invocation, response, downloads, jobs>>
vars     == <<stack, rendered, record, result, stream, client, gen, requests,
              service, listing, heap, applied, instances, frame,
              invocation, response, downloads, jobs>>

\* Python's None
None == [t |-> "None"]

\* the parts of the program a caller is not using
IdleExpr   == stack = <<>> /\ rendered = None
IdleRec    == record = None /\ result = None
IdleStream == stream = None
IdleClient == client = None /\ gen = None /\ requests = <<>>
IdleList   == service = None /\ listing = None
IdleHeap   == heap = <<>> /\ applied = <<>>
IdleFrame  == instances = None /\ frame = None
IdleFn     == invocation = None /\ response = None /\ downloads = <<>> /\ jobs = <<>>

-----------------------------------------------------------------------------
(* Bounds of the model *)

\* total number of expression nodes the caller holds at once
MaxNodes == 4
\* number of operands handed to the And(*exprs) / Or(*exprs) constructors
MaxArity == 3

-----------------------------------------------------------------------------
(* Python str operations on character sequences *)

\* s[i:] (1-based, inclusive start)
Tail_(s, i) == SubSeq(s, i, Len(s))

\* whether sep occurs in s at position i
IsAt(s, sep, i) ==
    /\ i >= 1
    /\ i + Len(sep) - 1 <= Len(s)
    /\ SubSeq(s, i, i + Len(sep) - 1) = sep

\* str.find: position of the first occurrence of sep in s, 0 when there is none
Find(s, sep) ==
    LET hits == {i \in 1..Len(s) : IsAt(s, sep, i)}
    IN  IF hits = {} THEN 0 ELSE CHOOSE i \in hits : \A j \in hits : i <= j

\* str.rfind: position of the last occurrence of sep in s, 0 when there is none
RFind(s, sep) ==
    LET hits == {i \in 1..Len(s) : IsAt(s, sep, i)}
    IN  IF hits = {} THEN 0 ELSE CHOOSE i \in hits : \A j \in hits : i >= j

\* s.split(sep): left to right, non-overlapping, sep non-empty
RECURSIVE Split(_, _)
Split(s, sep) ==
    LET i == Find(s, sep)
    IN  IF i = 0 THEN <<s>>
        ELSE <<SubSeq(s, 1, i - 1)>> \o Split(Tail_(s, i + Len(sep)), sep)

\* s.split(sep, 1)
Split1(s, sep) ==
    LET i == Find(s, sep)
    IN  IF i = 0 THEN <<s>>
        ELSE <<SubSeq(s, 1, i - 1), Tail_(s, i + Len(sep))>>

\* s.rsplit(sep, 1)
RSplit1(s, sep) ==
    LET i == RFind(s, sep)
    IN  IF i = 0 THEN <<s>>
        ELSE <<SubSeq(s, 1, i - 1), Tail_(s, i + Len(sep))>>

\* sep.join(parts)
RECURSIVE Join(_, _)
Join(sep, parts) ==
    IF Len(parts) = 0 THEN <<>>
    ELSE IF Len(parts) = 1 THEN parts[1]
    ELSE parts[1] \o sep \o Join(sep, Tail(parts))

\* parts[:-1]
AllButLast(parts) == SubSeq(parts, 1, Len(parts) - 1)

-----------------------------------------------------------------------------
(* String literals of expr.py *)

EqOpen == <<"=", "\"">>
Quote == <<"\"">>
InContextOpen == <<"i", "n", "_", "c", "o", "n", "t", "e", "x", "t", "(", "\"">>
CallClose == <<"\"", ")">>
ParentOpen == <<"p", "a", "r", "e", "n", "t", "_", "c", "o", "n", "t", "e", "x", "t", "s", ":", " ", "\"">>
LParen == <<"(">>
RParen == <<")">>
AndSep == <<" ", "A", "N", "D", " ">>
OrSep == <<" ", "O", "R", " ">>
Slash == <<"/">>
Hyphen == <<"-">>
ProjectsPfx == <<"p", "r", "o", "j", "e", "c", "t", "s", "/">>
LocationsInfix == <<"/", "l", "o", "c", "a", "t", "i", "o", "n", "s", "/">>
StoresInfix == <<"/", "m", "e", "t", "a", "d", "a", "t", "a", "S", "t", "o", "r", "e", "s", "/">>
ContextsInfix == <<"/", "c", "o", "n", "t", "e", "x", "t", "s", "/">>
SchemaTitleAttr == <<"s", "c", "h", "e", "m", "a", "_", "t", "i", "t", "l", "e">>
SystemPipeline == <<"s", "y", "s", "t", "e", "m", ".", "P", "i", "p", "e", "l", "i", "n", "e">>
DefaultStore == <<"d", "e", "f", "a", "u", "l", "t">>
SystemPipelineRun == <<"s", "y", "s", "t", "e", "m", ".", "P", "i", "p", "e", "l", "i", "n", "e", "R", "u", "n">>

-----------------------------------------------------------------------------
(* expr.py: the expression classes *)

\* Equals.__init__
Equals(attr, value) ==
    [kind |-> "Equals", attr |-> attr, value |-> value, context |-> <<>>, exprs |-> <<>>]

\* InContext.__init__
InContext(context) ==
    [kind |-> "InContext", attr |-> <<>>, value |-> <<>>, context |-> context, exprs |-> <<>>]

\* HasParentContext.__init__
HasParentContext(context) ==
    [kind |-> "HasParentContext", attr |-> <<>>, value |-> <<>>, context |-> context, exprs |-> <<>>]

\* And.__init__(*exprs)
And(exprs) ==
    [kind |-> "And", attr |-> <<>>, value |-> <<>>, context |-> <<>>, exprs |-> exprs]

\* Or.__init__(*exprs)
Or(exprs) ==
    [kind |-> "Or", attr |-> <<>>, value |-> <<>>, context |-> <<>>, exprs |-> exprs]

\* Expr.__and__
ExprAnd(self, other) == And(<<self, other>>)

\* Expr.__or__
ExprOr(self, other) == Or(<<self, other>>)

\* Equals.__str__: f'{self._attr}="{self._value}"'
StrEquals(attr, value) == attr \o EqOpen \o value \o Quote

\* InContext.__str__: f'in_context("{self._context}")'
StrInContext(context) == InContextOpen \o context \o CallClose

\* HasParentContext.__str__: f'parent_contexts: "{self._context}"'
StrHasParentContext(context) == ParentOpen \o context \o Quote

\* And/Or.__str__ dropping the parentheses of a one-operand node (not what the code does)
StrCompositeBare(sep, parts) ==
    IF Len(parts) = 1 THEN parts[1] ELSE LParen \o Join(sep, parts) \o RParen

\* And.__str__ / Or.__str__: f"({sep.join(str(expr) for expr in self._exprs)})"
StrComposite(sep, parts) == LParen \o Join(sep, parts) \o RParen

\* str(expr): dispatch on the class of the node
RECURSIVE Str(_)
Str(e) ==
    CASE e.kind = "Equals"           -> StrEquals(e.attr, e.value)
      [] e.kind = "InContext"        -> StrInContext(e.context)
      [] e.kind = "HasParentContext" -> StrHasParentContext(e.context)
      [] e.kind = "And" ->
            StrComposite(AndSep, [i \in 1..Len(e.exprs) |-> Str(e.exprs[i])])
      [] e.kind = "Or" ->
            StrComposite(OrSep, [i \in 1..Len(e.exprs) |-> Str(e.exprs[i])])

\* number of nodes of an expression tree
RECURSIVE Size(_)
RECURSIVE SizeAll(_)
Size(e) == 1 + SizeAll(e.exprs)
SizeAll(es) == IF es = <<>> THEN 0 ELSE Size(Head(es)) + SizeAll(Tail(es))

\* every node of a tree, the root included
RECURSIVE Nodes(_)
Nodes(e) == {e} \cup UNION {Nodes(e.exprs[i]) : i \in 1..Len(e.exprs)}

-----------------------------------------------------------------------------
(* A caller of expr.py: builds expressions bottom-up and renders them *)

\* operand strings: plain, holding a double quote, holding a parenthesis
OperandStrings == {<<"v">>, <<"a", "\"", "b">>, <<"(">>}
AttrStrings == {<<"k">>}

InitExpr ==
    /\ stack = <<>>
    /\ rendered = None
    /\ IdleRec /\ IdleStream /\ IdleClient /\ IdleList /\ IdleHeap /\ IdleFrame /\ IdleFn

CanPush == rendered = None /\ SizeAll(stack) < MaxNodes

\* equals(attr, value)
NewEquals ==
    /\ CanPush
    /\ \E attr \in AttrStrings, value \in OperandStrings :
          stack' = Append(stack, Equals(attr, value))
    /\ UNCHANGED <<rendered, recVars, stream, cliVars, listVars, heapVars, frameVars, fnVars>>

\* in_context(context)
NewInContext ==
    /\ CanPush
    /\ \E context \in OperandStrings : stack' = Append(stack, InContext(context))
    /\ UNCHANGED <<rendered, recVars, stream, cliVars, listVars, heapVars, frameVars, fnVars>>

\* has_parent_context(context)
NewHasParentContext ==
    /\ CanPush
    /\ \E context \in OperandStrings : stack' = Append(stack, HasParentContext(context))
    /\ UNCHANGED <<rendered, recVars, stream, cliVars, listVars, heapVars, frameVars, fnVars>>

\* And(*exprs) over the k expressions built last
NewAnd ==
    /\ CanPush
    /\ \E k \in 0..MaxArity :
          /\ k <= Len(stack)
          /\ stack' = Append(SubSeq(stack, 1, Len(stack) - k),
                             And(SubSeq(stack, Len(stack) - k + 1, Len(stack))))
    /\ UNCHANGED <<rendered, recVars, stream, cliVars, listVars, heapVars, frameVars, fnVars>>

\* Or(*exprs) over the k expressions built last
NewOr ==
    /\ CanPush
    /\ \E k \in 0..MaxArity :
          /\ k <= Len(stack)
          /\ stack' = Append(SubSeq(stack, 1, Len(stack) - k),
                             Or(SubSeq(stack, Len(stack) - k + 1, Len(stack))))
    /\ UNCHANGED <<rendered, recVars, stream, cliVars, listVars, heapVars, frameVars, fnVars>>

\* x & y on the two expressions built last
AndOp ==
    /\ CanPush
    /\ Len(stack) >= 2
    /\ stack' = Append(SubSeq(stack, 1, Len(stack) - 2),
                       ExprAnd(stack[Len(stack) - 1], stack[Len(stack)]))
    /\ UNCHANGED <<rendered, recVars, stream, cliVars, listVars, heapVars, frameVars, fnVars>>

\* x | y on the two expressions built last
OrOp ==
    /\ CanPush
    /\ Len(stack) >= 2
    /\ stack' = Append(SubSeq(stack, 1, Len(stack) - 2),
                       ExprOr(stack[Len(stack) - 1], stack[Len(stack)]))
    /\ UNCHANGED <<rendered, recVars, stream, cliVars, listVars, heapVars, frameVars, fnVars>>

\* str(expr) of the finished expression; the caller keeps the string only
Render ==
    /\ rendered = None
    /\ Len(stack) = 1
    /\ rendered' = [t |-> "str", of |-> stack[1], s |-> Str(stack[1])]
    /\ stack' = <<>>
    /\ UNCHANGED <<recVars, stream, cliVars, listVars, heapVars, frameVars, fnVars>>

\* the caller starts over
Reset ==
    /\ rendered # None
    /\ stack' = <<>>
    /\ rendered' = None
    /\ UNCHANGED <<recVars, stream, cliVars, listVars, heapVars, frameVars, fnVars>>

NextExpr ==
    \/ NewEquals
    \/ NewInContext
    \/ NewHasParentContext
    \/ NewAnd
    \/ NewOr
    \/ AndOp
    \/ OrOp
    \/ Render
    \/ Reset

SpecExpr == InitExpr /\ [][NextExpr]_vars

\* the structural reference rendering of the filter grammar
RECURSIVE RefRender(_)
RECURSIVE RefOperands(_, _, _)
RefRender(e) ==
    IF e.kind = "Equals" THEN e.attr \o <<"=", "\"">> \o e.value \o <<"\"">>
    ELSE IF e.kind = "InContext"
        THEN <<"i", "n", "_", "c", "o", "n", "t", "e", "x", "t", "(", "\"">> \o e.context \o <<"\"", ")">>
    ELSE IF e.kind = "HasParentContext"
        THEN <<"p", "a", "r", "e", "n", "t", "_", "c", "o", "n", "t", "e", "x", "t", "s", ":", " ", "\"">>
             \o e.context \o <<"\"">>
    ELSE IF e.kind = "And"
        THEN <<"(">> \o RefOperands(e.exprs, <<" ", "A", "N", "D", " ">>, TRUE) \o <<")">>
    ELSE <<"(">> \o RefOperands(e.exprs, <<" ", "O", "R", " ">>, TRUE) \o <<")">>
RefOperands(es, sep, first) ==
    IF es = <<>> THEN <<>>
    ELSE (IF first THEN <<>> ELSE sep) \o RefRender(Head(es)) \o RefOperands(Tail(es), sep, FALSE)

\* number of occurrences of character c in s
CountChar(s, c) == Cardinality({i \in 1..Len(s) : s[i] = c})

\* number of "(" a tree must render: one per composite node, one per in_context
\* call, and those of the operand strings themselves
RECURSIVE OpenParens(_)
RECURSIVE OpenParensAll(_)
OpenParens(e) ==
    (IF e.kind \in {"And", "Or", "InContext"} THEN 1 ELSE 0)
    + CountChar(e.attr, "(") + CountChar(e.value, "(") + CountChar(e.context, "(")
    + OpenParensAll(e.exprs)
OpenParensAll(es) ==
    IF es = <<>> THEN 0 ELSE OpenParens(Head(es)) + OpenParensAll(Tail(es))

\* C1: str(expr) of every expression tree built from Equals, InContext,
\* HasParentContext, And and Or equals the structural reference rendering:
\* leaves as a="v", in_context("c"), parent_contexts: "c"; And/Or as their
\* operands' renderings joined by " AND " / " OR " inside one pair of
\* parentheses per composite node; operand strings embedded verbatim.
C1_StrIsStructuralRendering ==
    rendered # None =>
        /\ rendered.s = RefRender(rendered.of)
        /\ CountChar(rendered.s, "(") = OpenParens(rendered.of)

\* a rendered And/Or with a nested composite operand and a value holding a quote
C1_Witness ==
    /\ rendered # None
    /\ rendered.of.kind \in {"And", "Or"}
    /\ \E i \in 1..Len(rendered.of.exprs) :
          /\ rendered.of.exprs[i].kind \in {"And", "Or"}
          /\ Len(rendered.of.exprs[i].exprs) = 1
    /\ \E n \in Nodes(rendered.of) : n.kind = "Equals" /\ n.value = <<"a", "\"", "b">>

-----------------------------------------------------------------------------
(* model.py: the record models *)

\* aiplatform_v1 Artifact.State, the enum behind record.state
StateEnum(value) == [enum |-> "Artifact.State", value |-> value]

\* record.state.name: the name of the enum member as a str
StateName(state) ==
    [str |-> CASE state.value = 0 -> "STATE_UNSPECIFIED"
               [] state.value = 1 -> "PENDING"
               [] state.value = 2 -> "LIVE"]

\* raise exc out of a factory: no instance is returned
Raise(op, exc) == [t |-> "raise", op |-> op, exc |-> exc]

\* a factory returns inst
Return(op, inst) == [t |-> "ok", op |-> op, inst |-> inst]

\* Pipeline.from_record
PipelineFromRecord(r) ==
    Return("Pipeline.from_record",
           [name           |-> r.name,
            display_name   |-> r.display_name,
            etag           |-> r.etag,
            create_time    |-> r.create_time,
            update_time    |-> r.update_time,
            schema_title   |-> r.schema_title,
            schema_version |-> r.schema_version])

\* the first parent context picked from the last entry (not what the code does)
FirstParentFromEnd(parent_contexts) == parent_contexts[Len(parent_contexts)]

\* record.parent_contexts[0]
FirstParent(parent_contexts) == parent_contexts[1]

\* str(record.parent_contexts[0]).rsplit("/", 1)[-1]
RunPipelineName(parent_contexts) ==
    LET parts == RSplit1(FirstParent(parent_contexts), Slash)
    IN  parts[Len(parts)]

\* the PipelineRun built from record r and the derived pipeline_name
PipelineRunInstance(r, pipeline_name) ==
    [name            |-> r.name,
     display_name    |-> r.display_name,
     etag            |-> r.etag,
     create_time     |-> r.create_time,
     update_time     |-> r.update_time,
     parent_contexts |-> r.parent_contexts,
     schema_title    |-> r.schema_title,
     schema_version  |-> r.schema_version,
     metadata        |-> r.metadata,
     pipeline_name   |-> pipeline_name]

\* PipelineRun.from_record giving a run without parents an empty pipeline_name
\* (not what the code does)
PipelineRunFromRecordLenient(r) ==
    Return("PipelineRun.from_record",
           PipelineRunInstance(r, IF Len(r.parent_contexts) = 0 THEN <<>>
                                  ELSE RunPipelineName(r.parent_contexts)))

\* PipelineRun.from_record: record.parent_contexts[0] raises IndexError on an
\* empty list, and then no instance is built
PipelineRunFromRecord(r) ==
    IF Len(r.parent_contexts) = 0
    THEN Raise("PipelineRun.from_record", "IndexError")
    ELSE Return("PipelineRun.from_record",
                PipelineRunInstance(r, RunPipelineName(r.parent_contexts)))

\* the pipeline name taken as everything before the last hyphen, the whole run
\* name when it has none (not what the code does)
PipelineNameRSplit(pipeline_run) == RSplit1(pipeline_run, Hyphen)[1]

\* "-".join(pipeline_run.split("-")[:-1])
PipelineNameOf(pipeline_run) == Join(Hyphen, AllButLast(Split(pipeline_run, Hyphen)))

\* the uri split at the last occurrence of the project id (not what the code does)
UriPartsFromRight(uri, project_id) == RSplit1(uri, Slash \o project_id \o Slash)

\* the uri split at the project id and the slash after it only (not what the code does)
UriPartsBySegment(uri, project_id) == Split1(uri, project_id \o Slash)

\* record.uri.split(f"/{project_id}/", 1)
UriParts(uri, project_id) == Split1(uri, Slash \o project_id \o Slash)

\* parts[1].split("/", 1)[0]
PipelineRunOf(parts) == Split1(parts[2], Slash)[1]

\* Artifact.from_record: [1] raises IndexError on a one-element split, and then
\* no instance is built
ArtifactFromRecord(r) ==
    LET nameParts == Split(r.name, Slash)
    IN  IF Len(nameParts) < 2 THEN Raise("Artifact.from_record", "IndexError")
        ELSE
        LET project_id == nameParts[2]
            parts      == UriParts(r.uri, project_id)
        IN  IF Len(parts) < 2 THEN Raise("Artifact.from_record", "IndexError")
            ELSE
            LET pipeline_run  == PipelineRunOf(parts)
                pipeline_name == PipelineNameOf(pipeline_run)
            IN  Return("Artifact.from_record",
                   [name           |-> r.name,
                    display_name   |-> r.display_name,
                    uri            |-> r.uri,
                    etag           |-> r.etag,
                    create_time    |-> r.create_time,
                    update_time    |-> r.update_time,
                    state          |-> StateName(r.state),
                    description    |-> r.description,
                    schema_title   |-> r.schema_title,
                    schema_version |-> r.schema_version,
                    metadata       |-> r.metadata,
                    pipeline_name  |-> pipeline_name,
                    pipeline_run   |-> pipeline_run])

-----------------------------------------------------------------------------
(* Records of the remote metadata service, and a caller of the factories *)

\* longest uri of an Artifact record
MaxUriLen == 6
\* longest context id of a parent context
MaxCtxLen == 3
\* most parent contexts of a Context record
MaxParents == 2

\* all strings over alphabet of length at most n
RECURSIVE StringsUpTo(_, _)
StringsUpTo(alphabet, n) ==
    IF n = 0 THEN {<<>>}
    ELSE LET shorter == StringsUpTo(alphabet, n - 1)
         IN  shorter \cup {Append(s, c) : s \in shorter, c \in alphabet}

\* all lists over elems of length at most n
RECURSIVE ListsUpTo(_, _)
ListsUpTo(elems, n) ==
    IF n = 0 THEN {<<>>}
    ELSE LET shorter == ListsUpTo(elems, n - 1)
         IN  shorter \cup {Append(l, e) : l \in shorter, e \in elems}

\* uris: the project id is "7" in most records
Uris == StringsUpTo({"/", "7", "r", "-"}, MaxUriLen)

\* the fields of an Artifact record other than its uri
ArtifactHeads ==
    { [name |-> <<"p", "/", "7">>, display_name |-> <<"d">>, etag |-> <<"e">>,
       create_time |-> 10, update_time |-> 11, state |-> StateEnum(2),
       description |-> <<>>, schema_title |-> <<"s", ".", "M">>,
       schema_version |-> <<"0", ".", "1">>, metadata |-> {}],
      [name |-> <<"p", "/", "7", "/", "a", "/", "1">>, display_name |-> <<"m">>, etag |-> <<"f">>,
       create_time |-> 20, update_time |-> 25, state |-> StateEnum(1),
       description |-> <<"x">>, schema_title |-> <<"s", ".", "D">>,
       schema_version |-> <<"0", ".", "2">>, metadata |-> {<<"a", 1>>}],
      [name |-> <<"p", "/", "r", "/", "7">>, display_name |-> <<"n">>, etag |-> <<"g">>,
       create_time |-> 30, update_time |-> 30, state |-> StateEnum(0),
       description |-> <<"y">>, schema_title |-> <<"s", ".", "A">>,
       schema_version |-> <<"0", ".", "3">>, metadata |-> {<<"a", 1>>, <<"b", 2>>}],
      [name |-> <<"p">>, display_name |-> <<"o">>, etag |-> <<"h">>,
       create_time |-> 40, update_time |-> 41, state |-> StateEnum(2),
       description |-> <<>>, schema_title |-> <<"s", ".", "M">>,
       schema_version |-> <<"0", ".", "1">>, metadata |-> {}] }

\* an Artifact record of the service
ArtifactRecord(h, u) ==
    [t |-> "Artifact", name |-> h.name, display_name |-> h.display_name, uri |-> u,
     etag |-> h.etag, create_time |-> h.create_time, update_time |-> h.update_time,
     state |-> h.state, description |-> h.description, schema_title |-> h.schema_title,
     schema_version |-> h.schema_version, metadata |-> h.metadata]

ArtifactRecords == {ArtifactRecord(h, u) : h \in ArtifactHeads, u \in Uris}

ContextIds == StringsUpTo({"/", "m"}, MaxCtxLen)

ContextHeads ==
    { [name |-> <<"c", "/", "1">>, display_name |-> <<"d">>, etag |-> <<"e">>,
       create_time |-> 10, update_time |-> 11, schema_title |-> SystemPipelineRun,
       schema_version |-> <<"0", ".", "1">>, metadata |-> {}],
      [name |-> <<"c", "/", "2">>, display_name |-> <<"m">>, etag |-> <<"f">>,
       create_time |-> 20, update_time |-> 25, schema_title |-> SystemPipeline,
       schema_version |-> <<"0", ".", "2">>, metadata |-> {<<"a", 1>>}] }

\* a Context record of the service
ContextRecord(h, ps) ==
    [t |-> "Context", name |-> h.name, display_name |-> h.display_name,
     etag |-> h.etag, create_time |-> h.create_time, update_time |-> h.update_time,
     parent_contexts |-> ps, schema_title |-> h.schema_title,
     schema_version |-> h.schema_version, metadata |-> h.metadata]

ContextRecords ==
    {ContextRecord(h, ps) : h \in ContextHeads, ps \in ListsUpTo(ContextIds, MaxParents)}

InitRecord ==
    /\ record \in ArtifactRecords \cup ContextRecords
    /\ result = None
    /\ IdleExpr /\ IdleStream /\ IdleClient /\ IdleList /\ IdleHeap /\ IdleFrame /\ IdleFn

\* Artifact.from_record(record)
CallArtifactFromRecord ==
    /\ result = None
    /\ record.t = "Artifact"
    /\ result' = ArtifactFromRecord(record)
    /\ UNCHANGED <<record, exprVars, stream, cliVars, listVars, heapVars, frameVars, fnVars>>

\* PipelineRun.from_record(record)
CallPipelineRunFromRecord ==
    /\ result = None
    /\ record.t = "Context"
    /\ result' = PipelineRunFromRecord(record)
    /\ UNCHANGED <<record, exprVars, stream, cliVars, listVars, heapVars, frameVars, fnVars>>

\* Pipeline.from_record(record)
CallPipelineFromRecord ==
    /\ result = None
    /\ record.t = "Context"
    /\ result' = PipelineFromRecord(record)
    /\ UNCHANGED <<record, exprVars, stream, cliVars, listVars, heapVars, frameVars, fnVars>>

NextRecord ==
    \/ CallArtifactFromRecord
    \/ CallPipelineRunFromRecord
    \/ CallPipelineFromRecord

SpecRecord == InitRecord /\ [][NextRecord]_vars

-----------------------------------------------------------------------------
(* What the record conventions say, stated on the characters of the fields *)

NoChar(s, c) == \A i \in 1..Len(s) : s[i] # c

\* the longest prefix of s that holds no slash: its first path segment
LeadingSegment(s) ==
    LET n == CHOOSE n \in 0..Len(s) :
                /\ \A k \in 1..n : s[k] # "/"
                /\ n = Len(s) \/ s[n + 1] = "/"
    IN  SubSeq(s, 1, n)

\* the longest suffix of s that holds no slash: its last path segment
TrailingSegment(s) ==
    LET n == CHOOSE n \in 0..Len(s) :
                /\ \A k \in (Len(s) - n + 1)..Len(s) : s[k] # "/"
                /\ n = Len(s) \/ s[Len(s) - n] = "/"
    IN  SubSeq(s, Len(s) - n + 1, Len(s))

\* m occurs in s at position i
OccursAt(s, m, i) ==
    /\ i + Len(m) - 1 <= Len(s)
    /\ \A k \in 1..Len(m) : s[i + k - 1] = m[k]

Occurs(s, m) == \E i \in 1..Len(s) : OccursAt(s, m, i)

\* what follows the first occurrence of m in s
AfterFirst(s, m) ==
    LET i == CHOOSE i \in 1..Len(s) :
                OccursAt(s, m, i) /\ \A j \in 1..(i - 1) : ~OccursAt(s, m, j)
    IN  SubSeq(s, i + Len(m), Len(s))

\* the record is named projects/<pid>/...: its name holds a slash
NamedByProject(r) == ~NoChar(r.name, "/")

\* <pid>: the second path segment of the record's name
ProjectOf(r) == LeadingSegment(AfterFirst(r.name, <<"/">>))

\* /<pid>/
ProjectMarker(r) == <<"/">> \o ProjectOf(r) \o <<"/">>

\* the segment of the uri right after the first /<pid>/
RunSegment(r) == LeadingSegment(AfterFirst(r.uri, ProjectMarker(r)))

\* run without its last hyphen-delimited token (and without that hyphen)
WithoutLastToken(run) ==
    IF NoChar(run, "-") THEN <<>>
    ELSE LET k == CHOOSE k \in 1..Len(run) :
                     run[k] = "-" /\ \A j \in (k + 1)..Len(run) : run[j] # "-"
         IN  SubSeq(run, 1, k - 1)

\* the names of Artifact.State
StateNames == <<"STATE_UNSPECIFIED", "PENDING", "LIVE">>

ArtifactCalled == result # None /\ result.op = "Artifact.from_record"
PipelineRunCalled == result # None /\ result.op = "PipelineRun.from_record"

\* the Artifact fields that are neither derived nor the state
ArtifactPlainFields ==
    {"name", "display_name", "uri", "etag", "create_time", "update_time",
     "description", "schema_title", "schema_version", "metadata"}

\* C2 as stated: pipeline_run is the segment after the first /<pid>/,
\* pipeline_name is the run without its last hyphen-delimited token, and all
\* other fields, state included, are the record's fields unchanged.
C2_AllOtherFieldsCopied ==
    (ArtifactCalled /\ NamedByProject(record) /\ Occurs(record.uri, ProjectMarker(record))) =>
        /\ result.t = "ok"
        /\ result.inst.pipeline_run = RunSegment(record)
        /\ result.inst.pipeline_name = WithoutLastToken(RunSegment(record))
        /\ \A f \in ArtifactPlainFields : result.inst[f] = record[f]
        /\ result.inst.state = record.state

\* C2 (amended): for an Artifact record named projects/<pid>/... whose uri
\* contains /<pid>/, from_record yields pipeline_run = the segment right after
\* the first /<pid>/ and pipeline_name = that run without its last
\* hyphen-delimited token; every other field is the record's field unchanged,
\* except state, which is the name of the record's state enum member.
C2_DerivedFieldsAndStateName ==
    (ArtifactCalled /\ NamedByProject(record) /\ Occurs(record.uri, ProjectMarker(record))) =>
        /\ result.t = "ok"
        /\ result.inst.pipeline_run = RunSegment(record)
        /\ result.inst.pipeline_name = WithoutLastToken(RunSegment(record))
        /\ \A f \in ArtifactPlainFields : result.inst[f] = record[f]
        /\ result.inst.state = [str |-> StateNames[record.state.value + 1]]

\* an Artifact built from the uri /7/r-7 of project 7: its run is r-7, its
\* pipeline r, and its state the name of the enum member
C2_Witness ==
    /\ ArtifactCalled
    /\ result.t = "ok"
    /\ record.uri = <<"/", "7", "/", "r", "-", "7">>
    /\ result.inst.pipeline_run = <<"r", "-", "7">>
    /\ result.inst.pipeline_name = <<"r">>
    /\ result.inst.state = [str |-> "LIVE"]

\* C3: for a Context record with at least one parent context,
\* PipelineRun.from_record yields pipeline_name = the last /-separated
\* segment of the first entry of parent_contexts, whatever the later entries.
C3_PipelineNameFromFirstParent ==
    (PipelineRunCalled /\ Len(record.parent_contexts) >= 1) =>
        /\ result.t = "ok"
        /\ result.inst.pipeline_name = TrailingSegment(record.parent_contexts[1])

\* a run with two parents whose last segments differ, the first one a path
C3_Witness ==
    /\ PipelineRunCalled
    /\ result.t = "ok"
    /\ Len(record.parent_contexts) = 2
    /\ ~NoChar(record.parent_contexts[1], "/")
    /\ result.inst.pipeline_name = <<"m">>
    /\ TrailingSegment(record.parent_contexts[2]) # <<"m">>

\* the run name recovered from the uri holds no hyphen
RunWithoutHyphen ==
    /\ ArtifactCalled
    /\ NamedByProject(record)
    /\ Occurs(record.uri, ProjectMarker(record))
    /\ NoChar(RunSegment(record), "-")

\* C4 as stated: Artifact.from_record fails, returning no instance, whenever
\* the run name recovered from the uri contains no hyphen.
C4_NoHyphenRaises ==
    RunWithoutHyphen => result.t = "raise"

\* What the code does in the case of C4: when the run name recovered from the
\* uri contains no hyphen, Artifact.from_record raises nothing: it returns an Artifact whose
\* pipeline_run is that run name and whose pipeline_name is the empty string.
C4_NoHyphenGivesEmptyName ==
    RunWithoutHyphen =>
        /\ result.t = "ok"
        /\ result.inst.pipeline_run = RunSegment(record)
        /\ result.inst.pipeline_name = <<>>

\* an Artifact returned for a non-empty run name without a hyphen
C4_Witness ==
    /\ RunWithoutHyphen
    /\ RunSegment(record) = <<"r", "r">>
    /\ result.t = "ok"
    /\ result.inst.pipeline_name = <<>>

\* C5 as stated: Artifact.from_record raises whenever the uri does not
\* contain the project id as a path segment or has no non-empty segment after
\* it, and never returns an instance whose pipeline_run is empty.
C5_EmptySegmentRaises ==
    (ArtifactCalled /\ NamedByProject(record)) =>
        /\ (\/ ~Occurs(record.uri, ProjectMarker(record))
            \/ RunSegment(record) = <<>>) => result.t = "raise"
        /\ result.t = "ok" => result.inst.pipeline_run # <<>>

\* What the code does in the cases of C5: Artifact.from_record raises
\* IndexError, returning no instance, whenever the uri does not contain /<pid>/ (the project id between
\* two slashes); when /<pid>/ is there and the segment after it is empty, it
\* raises nothing and returns an instance whose pipeline_run and
\* pipeline_name are both empty.
C5_MissingMarkerRaises ==
    (ArtifactCalled /\ NamedByProject(record)) =>
        /\ ~Occurs(record.uri, ProjectMarker(record)) =>
              result = [t |-> "raise", op |-> "Artifact.from_record", exc |-> "IndexError"]
        /\ (Occurs(record.uri, ProjectMarker(record)) /\ RunSegment(record) = <<>>) =>
              /\ result.t = "ok"
              /\ result.inst.pipeline_run = <<>>
              /\ result.inst.pipeline_name = <<>>

\* from_record raised on a uri that starts with the project id: 7/r-r
C5_Witness ==
    /\ ArtifactCalled
    /\ ProjectOf(record) = <<"7">>
    /\ record.uri = <<"7", "/", "r", "-", "r">>
    /\ result.t = "raise"

\* C6: PipelineRun.from_record fails, returning no instance, for every Context
\* record whose parent_contexts list is empty.
C6_NoParentRaises ==
    (PipelineRunCalled /\ record.parent_contexts = <<>>) =>
        result = [t |-> "raise", op |-> "PipelineRun.from_record", exc |-> "IndexError"]

\* from_record raised on a record without parent contexts
C6_Witness ==
    /\ PipelineRunCalled
    /\ record.parent_contexts = <<>>
    /\ result.t = "raise"

-----------------------------------------------------------------------------
(* expr.py: builders *)

\* equals(attr, value)
equals(attr, value) == Equals(attr, value)

\* in_context(context)
in_context(context) == InContext(context)

\* has_parent_context(parent_context)
has_parent_context(parent_context) == HasParentContext(parent_context)

\* schema_title(name)
schema_title(name) == equals(SchemaTitleAttr, name)

\* metastore_context(project_id, region, metadata_store)
metastore_context(project_id, region, metadata_store) ==
    ProjectsPfx \o project_id \o LocationsInfix \o region \o StoresInfix \o metadata_store

\* pipeline_context(project_id, region, metadata_store, pipeline_name)
pipeline_context(project_id, region, metadata_store, pipeline_name) ==
    ProjectsPfx \o project_id \o LocationsInfix \o region
        \o StoresInfix \o metadata_store \o ContextsInfix \o pipeline_name

\* run_context(project_id, region, metadata_store, run_name)
run_context(project_id, region, metadata_store, run_name) ==
    ProjectsPfx \o project_id \o LocationsInfix \o region
        \o StoresInfix \o metadata_store \o ContextsInfix \o run_name

-----------------------------------------------------------------------------
(* client.py: VertexMlMetadataClient *)

\* Python values of the Optional[str] / Expr arguments
PyStr(s) == [t |-> "str", s |-> s]
PyExpr(e) == [t |-> "Expr", e |-> e]

\* truth value of an argument: None and "" are false; the Expr classes define
\* neither __bool__ nor __len__, so every Expr is true
Truthy(v) ==
    CASE v.t = "None" -> FALSE
      [] v.t = "str"  -> v.s # <<>>
      [] v.t = "Expr" -> TRUE

\* str(v)
PyStrOf(v) ==
    CASE v.t = "None" -> <<"N", "o", "n", "e">>
      [] v.t = "str"  -> v.s
      [] v.t = "Expr" -> Str(v.e)

\* VertexMlMetadataClient.__init__
NewClient(project_id, region, metadata_store) ==
    [_project_id |-> project_id, _region |-> region, _metadata_store |-> metadata_store]

\* self._metastore_context()
SelfMetastoreContext(self) ==
    metastore_context(self._project_id, self._region, self._metadata_store)

\* self._pipeline_context(pipeline_name)
SelfPipelineContext(self, pipeline_name) ==
    pipeline_context(self._project_id, self._region, self._metadata_store, pipeline_name)

\* self._run_context(run_name)
SelfRunContext(self, run_name) ==
    run_context(self._project_id, self._region, self._metadata_store, run_name)

\* the schema clause added unless the title is None (not what the code does)
InContextWithOptionalSchemaIfNotNone(context, title) ==
    IF title # None
    THEN ExprAnd(in_context(context), schema_title(title.s))
    ELSE in_context(context)

\* _in_context_with_optional_schema(context, schema_title)
InContextWithOptionalSchema(context, title) ==
    IF Truthy(title)
    THEN ExprAnd(in_context(context), schema_title(title.s))
    ELSE in_context(context)

\* the filter handed on as it was given (not what the code does)
ListArtifactsFilterUncoerced(filter_expr) ==
    IF Truthy(filter_expr) THEN filter_expr ELSE None

\* list_artifacts: filter=str(filter_expr) if filter_expr else None
ListArtifactsFilter(filter_expr) ==
    IF Truthy(filter_expr) THEN PyStr(PyStrOf(filter_expr)) ELSE None

\* list_pipeline_runs with the pipeline looked up by in_context (not what the code does)
ListPipelineRunsFilterInContext(self, pipeline_name) ==
    Str(ExprAnd(in_context(SelfPipelineContext(self, pipeline_name)),
                schema_title(SystemPipelineRun)))

\* list_pipeline_runs: str(has_parent_context(...) & schema_title("system.PipelineRun"))
ListPipelineRunsFilter(self, pipeline_name) ==
    Str(ExprAnd(has_parent_context(SelfPipelineContext(self, pipeline_name)),
                schema_title(SystemPipelineRun)))

\* the request a generator builds and sends when its body first runs
RequestOf(self, g) ==
    CASE g.op = "list_pipelines" ->
            [method |-> "list_contexts",
             parent |-> SelfMetastoreContext(self),
             filter |-> PyStr(Str(schema_title(SystemPipeline)))]
      [] g.op = "list_pipeline_runs" ->
            [method |-> "list_contexts",
             parent |-> SelfMetastoreContext(self),
             filter |-> PyStr(ListPipelineRunsFilter(self, g.arg.s))]
      [] g.op = "list_artifacts" ->
            [method |-> "list_artifacts",
             parent |-> SelfMetastoreContext(self),
             filter |-> ListArtifactsFilter(g.arg)]

\* a generator object: the generator function, its bound argument, the public
\* method that was called with its arguments, the number of the call, and
\* whether the body has started
Generator(op, arg, via, call) ==
    [op |-> op, arg |-> arg, via |-> via, call |-> call, started |-> FALSE]

\* self.list_pipelines(): a generator, nothing runs yet
ListPipelines(self, call) ==
    Generator("list_pipelines", None, [fn |-> "list_pipelines"], call)

\* self.list_pipeline_runs(pipeline_name): a generator, nothing runs yet
ListPipelineRuns(self, pipeline_name, call) ==
    Generator("list_pipeline_runs", PyStr(pipeline_name),
              [fn |-> "list_pipeline_runs", name |-> pipeline_name], call)

\* self.list_artifacts(filter_expr): a generator, nothing runs yet
ListArtifacts(self, filter_expr, call) ==
    Generator("list_artifacts", filter_expr,
              [fn |-> "list_artifacts", filter_expr |-> filter_expr], call)

\* self.list_artifacts_for_pipeline(pipeline_name, schema_title): the filter is
\* rendered at once and handed to list_artifacts
ListArtifactsForPipeline(self, pipeline_name, title, call) ==
    Generator("list_artifacts",
              PyStr(Str(InContextWithOptionalSchema(SelfPipelineContext(self, pipeline_name), title))),
              [fn |-> "list_artifacts_for_pipeline", name |-> pipeline_name, title |-> title], call)

\* self.list_artifacts_for_run(pipeline_run, schema_title)
ListArtifactsForRun(self, pipeline_run, title, call) ==
    Generator("list_artifacts",
              PyStr(Str(InContextWithOptionalSchema(SelfRunContext(self, pipeline_run), title))),
              [fn |-> "list_artifacts_for_run", name |-> pipeline_run, title |-> title], call)

-----------------------------------------------------------------------------
(* A caller of the metadata client *)

\* list calls made on one client
MaxCalls == 2

ProjectIds == {<<"p">>, <<"q", "7">>}
Regions == {<<"r">>, <<"e", "u">>}
\* metadata_store defaults to "default"
MetadataStores == {DefaultStore, <<"s">>}
ContextNames == {<<"n">>, <<"r", "u", "n", "-", "1">>}
SchemaTitles == {None, PyStr(<<>>), PyStr(<<"s", ".", "D">>)}
FilterExprs ==
    {None, PyStr(<<>>), PyStr(<<"k", "=", "\"", "v", "\"">>),
     PyExpr(InContext(<<"c">>)),
     PyExpr(ExprOr(Equals(<<"k">>, <<"v">>), HasParentContext(<<"c">>)))}

InitClient ==
    /\ \E p \in ProjectIds, r \in Regions, m \in MetadataStores : client = NewClient(p, r, m)
    /\ gen = None
    /\ requests = <<>>
    /\ IdleExpr /\ IdleRec /\ IdleStream /\ IdleList /\ IdleHeap /\ IdleFrame /\ IdleFn

\* number of list calls made so far
Calls == IF gen = None THEN 0 ELSE gen.call

CallListPipelines ==
    /\ Calls < MaxCalls
    /\ gen' = ListPipelines(client, Calls + 1)
    /\ UNCHANGED <<client, requests, exprVars, recVars, stream, listVars, heapVars, frameVars, fnVars>>

CallListPipelineRuns ==
    /\ Calls < MaxCalls
    /\ \E name \in ContextNames : gen' = ListPipelineRuns(client, name, Calls + 1)
    /\ UNCHANGED <<client, requests, exprVars, recVars, stream, listVars, heapVars, frameVars, fnVars>>

CallListArtifacts ==
    /\ Calls < MaxCalls
    /\ \E f \in FilterExprs : gen' = ListArtifacts(client, f, Calls + 1)
    /\ UNCHANGED <<client, requests, exprVars, recVars, stream, listVars, heapVars, frameVars, fnVars>>

CallListArtifactsForPipeline ==
    /\ Calls < MaxCalls
    /\ \E name \in ContextNames, title \in SchemaTitles :
          gen' = ListArtifactsForPipeline(client, name, title, Calls + 1)
    /\ UNCHANGED <<client, requests, exprVars, recVars, stream, listVars, heapVars, frameVars, fnVars>>

CallListArtifactsForRun ==
    /\ Calls < MaxCalls
    /\ \E name \in ContextNames, title \in SchemaTitles :
          gen' = ListArtifactsForRun(client, name, title, Calls + 1)
    /\ UNCHANGED <<client, requests, exprVars, recVars, stream, listVars, heapVars, frameVars, fnVars>>

\* the first next() on the generator: its body builds the request and sends it
StartGenerator ==
    /\ gen # None
    /\ ~gen.started
    /\ requests' = Append(requests, [call |-> gen.call, via |-> gen.via,
                                     request |-> RequestOf(client, gen)])
    /\ gen' = [gen EXCEPT !.started = TRUE]
    /\ UNCHANGED <<client, exprVars, recVars, stream, listVars, heapVars, frameVars, fnVars>>

Next ==
    \/ CallListPipelines
    \/ CallListPipelineRuns
    \/ CallListArtifacts
    \/ CallListArtifactsForPipeline
    \/ CallListArtifactsForRun
    \/ StartGenerator

Spec == InitClient /\ [][Next]_vars

\* projects/p/locations/r/metadataStores/s of a client
StorePath(c) ==
    <<"p", "r", "o", "j", "e", "c", "t", "s", "/">> \o c._project_id \o <<"/", "l", "o", "c", "a", "t", "i", "o", "n", "s", "/">>
        \o c._region \o <<"/", "m", "e", "t", "a", "d", "a", "t", "a", "S", "t", "o", "r", "e", "s", "/">> \o c._metadata_store

\* .../contexts/<name>
ContextPath(c, name) == StorePath(c) \o <<"/", "c", "o", "n", "t", "e", "x", "t", "s", "/">> \o name

\* the requests that came from calls of the public method fn
RequestsVia(fns) == {i \in 1..Len(requests) : requests[i].via.fn \in fns}

ScopedListings == {"list_artifacts_for_run", "list_artifacts_for_pipeline"}

\* in_context("<ctx>")
InContextText(ctx) == <<"i", "n", "_", "c", "o", "n", "t", "e", "x", "t", "(", "\"">> \o ctx \o <<"\"", ")">>

\* (in_context("<ctx>") AND schema_title="<title>")
InContextAndSchemaText(ctx, title) ==
    <<"(">> \o InContextText(ctx) \o <<" ", "A", "N", "D", " ", "s", "c", "h", "e", "m", "a", "_", "t", "i", "t", "l", "e", "=", "\"">> \o title \o <<"\"", ")">>

\* C7 as stated: list_artifacts_for_run / list_artifacts_for_pipeline query with
\* filter (in_context("<ctx>") AND schema_title="<title>") whenever a schema
\* title is given, and with in_context("<ctx>") when it is omitted.
C7_SchemaClauseWheneverGiven ==
    \A i \in RequestsVia(ScopedListings) :
        requests[i].request.filter =
            PyStr(IF requests[i].via.title # None
                  THEN InContextAndSchemaText(ContextPath(client, requests[i].via.name),
                                              requests[i].via.title.s)
                  ELSE InContextText(ContextPath(client, requests[i].via.name)))

\* C7 (amended): the filter is (in_context("<ctx>") AND schema_title="<title>")
\* whenever a non-empty schema title is given, and in_context("<ctx>") alone
\* when the title is omitted or is the empty string; <ctx> is
\* projects/p/locations/r/metadataStores/s/contexts/<name>.
C7_SchemaClauseWhenNonEmpty ==
    \A i \in RequestsVia(ScopedListings) :
        /\ requests[i].request.method = "list_artifacts"
        /\ requests[i].request.filter =
            PyStr(IF requests[i].via.title \notin {None, PyStr(<<>>)}
                  THEN InContextAndSchemaText(ContextPath(client, requests[i].via.name),
                                              requests[i].via.title.s)
                  ELSE InContextText(ContextPath(client, requests[i].via.name)))

\* both forms were sent: one request with a schema title, one without
C7_Witness ==
    /\ \E i \in RequestsVia({"list_artifacts_for_run"}) :
          requests[i].via.title = PyStr(<<"s", ".", "D">>)
    /\ \E i \in RequestsVia({"list_artifacts_for_pipeline"}) :
          requests[i].via.title = None

\* C8: list_pipeline_runs(name) queries with parent
\* projects/p/locations/r/metadataStores/s and filter
\* (parent_contexts: "<parent>/contexts/<name>" AND schema_title="system.PipelineRun"),
\* (p, r, s) being the triple of the constructor whatever was called before.
C8_PipelineRunsRequest ==
    \A i \in RequestsVia({"list_pipeline_runs"}) :
        /\ requests[i].request.method = "list_contexts"
        /\ requests[i].request.parent = StorePath(client)
        /\ requests[i].request.filter =
              PyStr(<<"(", "p", "a", "r", "e", "n", "t", "_", "c", "o", "n", "t", "e", "x", "t", "s", ":", " ", "\"">> \o ContextPath(client, requests[i].via.name) \o <<"\"", " ", "A", "N", "D", " ", "s", "c", "h", "e", "m", "a", "_", "t", "i", "t", "l", "e", "=", "\"", "s", "y", "s", "t", "e", "m", ".", "P", "i", "p", "e", "l", "i", "n", "e", "R", "u", "n", "\"", ")">>)

\* a list_pipeline_runs request sent after another list operation of the client
C8_Witness ==
    /\ Len(requests) = 2
    /\ requests[1].via.fn # "list_pipeline_runs"
    /\ requests[2].via.fn = "list_pipeline_runs"
    /\ client._metadata_store # DefaultStore

\* C9 as stated: list_artifacts sends str(filter_expr) for every expression
\* that is given, and no filter only when the argument is omitted.
C9_FilterWheneverGiven ==
    \A i \in RequestsVia({"list_artifacts"}) :
        /\ requests[i].via.filter_expr # None =>
              requests[i].request.filter = PyStr(PyStrOf(requests[i].via.filter_expr))
        /\ requests[i].request.filter = None => requests[i].via.filter_expr = None

\* the text an argument of list_artifacts stands for
FilterText(v) == IF v.t = "str" THEN v.s ELSE RefRender(v.e)

\* C9 (amended): list_artifacts sends as the request filter exactly the string
\* form of the given expression, unchanged, for every Expr and every non-empty
\* string, and sends no filter when the argument is omitted or is the empty
\* string.
C9_FilterWhenNonEmpty ==
    \A i \in RequestsVia({"list_artifacts"}) :
        /\ requests[i].request.method = "list_artifacts"
        /\ requests[i].request.parent = StorePath(client)
        /\ requests[i].request.filter =
              IF requests[i].via.filter_expr \in {None, PyStr(<<>>)}
              THEN None
              ELSE PyStr(FilterText(requests[i].via.filter_expr))

\* an Expr and a string were both sent as filters
C9_Witness ==
    /\ \E i \in RequestsVia({"list_artifacts"}) : requests[i].via.filter_expr.t = "Expr"
    /\ \E i \in RequestsVia({"list_artifacts"}) :
          /\ requests[i].via.filter_expr.t = "str"
          /\ requests[i].request.filter # None

-----------------------------------------------------------------------------
(* model.py: from_records, a generator expression over the records *)

\* cls.from_record(record)
FromRecord(cls, r) ==
    CASE cls = "Pipeline"    -> PipelineFromRecord(r)
      [] cls = "PipelineRun" -> PipelineRunFromRecord(r)
      [] cls = "Artifact"    -> ArtifactFromRecord(r)

\* cls.from_records(records): (cls.from_record(record) for record in records).
\* Creating the generator takes iter(records) and pulls nothing.
FromRecords(cls, records) ==
    [cls       |-> cls,
     records   |-> records,     \* the source, in its order
     pulled    |-> 0,           \* records the generator took from the source
     requested |-> 0,           \* next() calls of the consumer
     received  |-> <<>>,        \* the models the consumer got, in order
     state     |-> "created",   \* created, running, done (exhausted), failed
     last      |-> "none"]      \* what the last next() gave: item, StopIteration, an error

\* next() on a generator that converts the whole source at its first step
\* (not what the code does)
GenNextDraining(g) ==
    IF g.state \in {"done", "failed"}
    THEN [g EXCEPT !.requested = @ + 1, !.last = "StopIteration"]
    ELSE IF g.requested = Len(g.records)
    THEN [g EXCEPT !.requested = @ + 1, !.state = "done", !.last = "StopIteration"]
    ELSE LET made == FromRecord(g.cls, g.records[g.requested + 1])
         IN  IF made.t = "raise"
             THEN [g EXCEPT !.requested = @ + 1,
                            !.pulled = Len(g.records),
                            !.state = "failed",
                            !.last = made.exc]
             ELSE [g EXCEPT !.requested = @ + 1,
                            !.pulled = Len(g.records),
                            !.received = Append(@, made.inst),
                            !.state = "running",
                            !.last = "item"]

\* next() on the generator: a finished generator raises StopIteration; else the
\* next record is pulled from the source (StopIteration when there is none),
\* converted, and yielded; an error of from_record passes to the consumer and
\* finishes the generator
GenNext(g) ==
    IF g.state \in {"done", "failed"}
    THEN [g EXCEPT !.requested = @ + 1, !.last = "StopIteration"]
    ELSE IF g.pulled = Len(g.records)
    THEN [g EXCEPT !.requested = @ + 1, !.state = "done", !.last = "StopIteration"]
    ELSE LET made == FromRecord(g.cls, g.records[g.pulled + 1])
         IN  IF made.t = "raise"
             THEN [g EXCEPT !.requested = @ + 1,
                            !.pulled = @ + 1,
                            !.state = "failed",
                            !.last = made.exc]
             ELSE [g EXCEPT !.requested = @ + 1,
                            !.pulled = @ + 1,
                            !.received = Append(@, made.inst),
                            !.state = "running",
                            !.last = "item"]

-----------------------------------------------------------------------------
(* A consumer of from_records *)

\* most records of a source
MaxRecords == 3

\* records of a source: two that convert, and one that breaks the convention
\* of its class (no /<pid>/ in the uri, no parent context)
SourceArtifacts ==
    LET h == CHOOSE h \in ArtifactHeads : h.name = <<"p", "/", "7">>
    IN  {ArtifactRecord(h, <<"/", "7", "/", "r", "-", "7">>),
         ArtifactRecord(h, <<"/", "7", "/", "r", "/">>),
         ArtifactRecord(h, <<"r">>)}

SourceContexts ==
    LET h == CHOOSE h \in ContextHeads : h.schema_title = SystemPipelineRun
    IN  {ContextRecord(h, << <<"m", "/", "m">> >>),
         ContextRecord(h, << <<"/">>, <<"m">> >>),
         ContextRecord(h, <<>>)}

SourceRecords(cls) == IF cls = "Artifact" THEN SourceArtifacts ELSE SourceContexts

InitStream ==
    /\ \E cls \in {"Pipeline", "PipelineRun", "Artifact"} :
          \E records \in ListsUpTo(SourceRecords(cls), MaxRecords) :
              stream = FromRecords(cls, records)
    /\ IdleExpr /\ IdleRec /\ IdleClient /\ IdleList /\ IdleHeap /\ IdleFrame /\ IdleFn

\* the consumer asks for the next element; it may ask again after the end
ConsumerNext ==
    /\ stream.requested < Len(stream.records) + 2
    /\ stream' = GenNext(stream)
    /\ UNCHANGED <<exprVars, recVars, cliVars, listVars, heapVars, frameVars, fnVars>>

NextStream == ConsumerNext

SpecStream == InitStream /\ [][NextStream]_vars

Min(a, b) == IF a <= b THEN a ELSE b

\* position of the first record of the source that from_record rejects,
\* Len(records) + 1 when it rejects none
FirstRejected(g) ==
    LET bad == {k \in 1..Len(g.records) : FromRecord(g.cls, g.records[k]).t = "raise"}
    IN  IF bad = {} THEN Len(g.records) + 1
        ELSE CHOOSE k \in bad : \A j \in bad : k <= j

\* C10: from_records yields one model per input record, in input order, and
\* ends when the input is exhausted; it is lazy: the k-th record is pulled and
\* converted only when the consumer requests the k-th element, so the number
\* of records consumed is the number of elements requested, as far as the
\* source has records, and never more.
C10_LazyOneToOneInOrder ==
    stream # None =>
        LET n == Len(stream.records)
            f == FirstRejected(stream)
        IN  /\ stream.pulled <= stream.requested
            /\ stream.pulled = Min(stream.requested, Min(f, n))
            /\ Len(stream.received) = Min(stream.requested, f - 1)
            /\ \A k \in 1..Len(stream.received) :
                  stream.received[k] = FromRecord(stream.cls, stream.records[k]).inst
            /\ stream.state = "done" =>
                  /\ f = n + 1
                  /\ Len(stream.received) = n
                  /\ stream.requested > n
            /\ (f = n + 1 /\ stream.requested > n) => stream.state = "done"

\* two of three records consumed on two requests, the third still in the source
C10_Witness ==
    /\ stream # None
    /\ stream.cls = "Artifact"
    /\ Len(stream.records) = 3
    /\ stream.requested = 2
    /\ stream.pulled = 2
    /\ Len(stream.received) = 2
    /\ stream.received[1].pipeline_run # stream.received[2].pipeline_run
    /\ stream.state = "running"

-----------------------------------------------------------------------------
(* client.py: a list operation from the call to the end of its sequence *)

\* the model class a list operation maps the service's records to
ListClass(op) ==
    CASE op = "list_pipelines"     -> "Pipeline"
      [] op = "list_pipeline_runs" -> "PipelineRun"
      [] op = "list_artifacts"     -> "Artifact"

\* errors of the transport (permission, quota)
TransportErrors == {"PermissionDenied", "ResourceExhausted"}

\* What the metadata service does with one list operation:
\*   client   whether get_client() could build the service client
\*   call     "ok" when the list call returned a pager, else the error it raised
\*   records  the records the pager delivers, in the service's order
\*   ends     how the pager ends after them: StopIteration, or the error of the
\*            transport met while fetching the next record
Unavailable == [client |-> "DefaultCredentialsError", call |-> "none", records |-> <<>>, ends |-> "none"]
Refused(exc) == [client |-> "ok", call |-> exc, records |-> <<>>, ends |-> "none"]
Pager(records, ends) == [client |-> "ok", call |-> "ok", records |-> records, ends |-> ends]

\* an iterable handed to from_records: its records, and how it ends
Iterable(records, ends) == [client |-> "none", call |-> "none", records |-> records, ends |-> ends]

\* the generator a consumer iterates over, and what the consumer has of it;
\* of: the list operation's generator function, or from_records; n: the
\* number of the call among the consumer's calls
Sequence_(of, cls, n) ==
    [of |-> of, n |-> n] @@ FromRecords(cls, <<>>)

\* the generator past the records from_record rejects
RECURSIVE SkipRejected(_)
SkipRejected(g) ==
    IF g.pulled < Len(g.records) /\ FromRecord(g.cls, g.records[g.pulled + 1]).t = "raise"
    THEN SkipRejected([g EXCEPT !.pulled = @ + 1])
    ELSE g

\* next() on a generator that maps from_record over a source and leaves out
\* the records that cannot be converted (not what the code does)
MapNextSkipping(g, ends) ==
    IF g.state \in {"done", "failed"}
    THEN GenNext(g)
    ELSE LET h == SkipRejected(g)
         IN  IF h.pulled = Len(h.records) /\ ends # "StopIteration"
             THEN [h EXCEPT !.requested = @ + 1, !.state = "failed", !.last = ends]
             ELSE GenNext(h)

\* next() on a generator that maps from_record over a source: as GenNext, but
\* the source may end with an error of the transport in place of StopIteration;
\* the error passes through map and the generator to the consumer
MapNext(g, ends) ==
    IF g.state \notin {"done", "failed"} /\ g.pulled = Len(g.records) /\ ends # "StopIteration"
    THEN [g EXCEPT !.requested = @ + 1, !.state = "failed", !.last = ends]
    ELSE GenNext(g)

\* the first next() on a list operation's generator: the body builds the
\* request, get_client() builds the service client, the list call is made,
\* and map() starts on the pager
ListStart(g, outcome) ==
    IF outcome.client # "ok"
    THEN [g EXCEPT !.requested = @ + 1, !.state = "failed", !.last = outcome.client]
    ELSE IF outcome.call # "ok"
    THEN [g EXCEPT !.requested = @ + 1, !.state = "failed", !.last = outcome.call]
    ELSE MapNext([g EXCEPT !.records = outcome.records], outcome.ends)

\* the log of list calls after a generator body that repeats a failed list
\* call once (not what the code does)
SentRetrying(log, self, g, outcome) ==
    LET sent == [call |-> g.call, via |-> g.via, request |-> RequestOf(self, g)]
    IN  IF outcome.client # "ok" THEN log
        ELSE IF outcome.call # "ok" THEN Append(Append(log, sent), sent)
        ELSE Append(log, sent)

\* the log of list calls after the body of generator g has run: one
\* list_contexts / list_artifacts call on the client get_client() returned,
\* none when get_client() raised
Sent(log, self, g, outcome) ==
    LET sent == [call |-> g.call, via |-> g.via, request |-> RequestOf(self, g)]
    IN  IF outcome.client # "ok" THEN log ELSE Append(log, sent)

-----------------------------------------------------------------------------
(* A consumer of the list operations and of from_records *)

\* list operations and from_records calls made by one consumer
MaxListings == 2

\* the ends of a source
SourceEnds == {"StopIteration"} \cup TransportErrors

\* what the service may do with a list operation of class cls
ServiceOutcomes(cls) ==
    {Unavailable}
        \cup {Refused(exc) : exc \in TransportErrors}
        \cup {Pager(records, ends) : records \in ListsUpTo(SourceRecords(cls), MaxRecords),
                                     ends \in SourceEnds}

InitList ==
    /\ client = NewClient(<<"p">>, <<"r">>, DefaultStore)
    /\ gen = None
    /\ requests = <<>>
    /\ service = None
    /\ listing = None
    /\ IdleExpr /\ IdleRec /\ IdleStream /\ IdleHeap /\ IdleFrame /\ IdleFn

\* number of calls the consumer has made so far
Listings == IF listing = None THEN 0 ELSE listing.n

\* list_pipelines() is called: a generator is returned, nothing has run
ListPipelinesCalled ==
    /\ Listings < MaxListings
    /\ gen' = ListPipelines(client, Calls + 1)
    /\ listing' = Sequence_("list_pipelines", "Pipeline", Listings + 1)
    /\ service' = None
    /\ UNCHANGED <<client, requests, exprVars, recVars, stream, heapVars, frameVars, fnVars>>

ListPipelineRunsCalled ==
    /\ Listings < MaxListings
    /\ gen' = ListPipelineRuns(client, <<"n">>, Calls + 1)
    /\ listing' = Sequence_("list_pipeline_runs", "PipelineRun", Listings + 1)
    /\ service' = None
    /\ UNCHANGED <<client, requests, exprVars, recVars, stream, heapVars, frameVars, fnVars>>

ListArtifactsCalled ==
    /\ Listings < MaxListings
    /\ \E f \in {None, PyExpr(InContext(<<"c">>))} : gen' = ListArtifacts(client, f, Calls + 1)
    /\ listing' = Sequence_("list_artifacts", "Artifact", Listings + 1)
    /\ service' = None
    /\ UNCHANGED <<client, requests, exprVars, recVars, stream, heapVars, frameVars, fnVars>>

ListArtifactsForPipelineCalled ==
    /\ Listings < MaxListings
    /\ gen' = ListArtifactsForPipeline(client, <<"n">>, None, Calls + 1)
    /\ listing' = Sequence_("list_artifacts", "Artifact", Listings + 1)
    /\ service' = None
    /\ UNCHANGED <<client, requests, exprVars, recVars, stream, heapVars, frameVars, fnVars>>

ListArtifactsForRunCalled ==
    /\ Listings < MaxListings
    /\ gen' = ListArtifactsForRun(client, <<"n">>, PyStr(<<"s", ".", "D">>), Calls + 1)
    /\ listing' = Sequence_("list_artifacts", "Artifact", Listings + 1)
    /\ service' = None
    /\ UNCHANGED <<client, requests, exprVars, recVars, stream, heapVars, frameVars, fnVars>>

\* cls.from_records(source) is called on an iterable of the consumer; it
\* shares nothing with the client, so it is tried before the client is used
FromRecordsCalled ==
    /\ listing = None
    /\ gen = None
    /\ \E cls \in {"PipelineRun", "Artifact"} :
          \E records \in ListsUpTo(SourceRecords(cls), MaxRecords), ends \in SourceEnds :
              /\ service' = Iterable(records, ends)
              /\ listing' = [Sequence_("from_records", cls, Listings + 1) EXCEPT !.records = records]
    /\ UNCHANGED <<cliVars, exprVars, recVars, stream, heapVars, frameVars, fnVars>>

\* the consumer's first next() on a list operation's generator
FirstNext ==
    /\ listing # None
    /\ listing.of # "from_records"
    /\ ~gen.started
    /\ \E outcome \in ServiceOutcomes(listing.cls) :
          /\ service' = outcome
          /\ requests' = Sent(requests, client, gen, outcome)
          /\ listing' = ListStart(listing, outcome)
    /\ gen' = [gen EXCEPT !.started = TRUE]
    /\ UNCHANGED <<client, exprVars, recVars, stream, heapVars, frameVars, fnVars>>

\* a later next() on a list operation's generator, or any next() on a
\* from_records generator; the consumer may ask again after the end
LaterNext ==
    /\ listing # None
    /\ IF listing.of = "from_records" THEN TRUE ELSE gen.started
    /\ listing.requested < Len(listing.records) + 2
    /\ listing' = MapNext(listing, service.ends)
    /\ UNCHANGED <<cliVars, service, exprVars, recVars, stream, heapVars, frameVars, fnVars>>

NextList ==
    \/ ListPipelinesCalled
    \/ ListPipelineRunsCalled
    \/ ListArtifactsCalled
    \/ ListArtifactsForPipelineCalled
    \/ ListArtifactsForRunCalled
    \/ FromRecordsCalled
    \/ FirstNext
    \/ LaterNext

SpecList == InitList /\ [][NextList]_vars

\* how the source of a sequence was obtained and how it behaves; None before
\* the body of a list operation's generator has run
Sourced == listing # None /\ service # None

\* the source could not be opened: the service client or the list call failed
Unopened == service.client \notin {"ok", "none"} \/ service.call \notin {"ok", "none"}

\* position of the record the sequence fails on: the first record from_record
\* rejects, or the record after the last when the transport fails fetching it
\* (1 when the list call itself fails); 0 when the sequence does not fail
FailsOn ==
    LET n == Len(listing.records)
        f == FirstRejected(listing)
    IN  IF Unopened THEN 1
        ELSE IF f <= n THEN f
        ELSE IF service.ends # "StopIteration" THEN n + 1
        ELSE 0

\* the error met at that record
FailureOf(k) ==
    IF service.client \notin {"ok", "none"} THEN service.client
    ELSE IF service.call \notin {"ok", "none"} THEN service.call
    ELSE IF k <= Len(listing.records) THEN FromRecord(listing.cls, listing.records[k]).exc
    ELSE service.ends

\* C11: when a list operation or from_records fails on the k-th record (an
\* error of from_record, or of the transport while fetching the record), the
\* consumer has received the models of records 1..k-1, each the mapping of its
\* record and in order; the k-th request gets the failure itself, and later
\* requests get nothing more: no record is skipped, no result is lost.
C11_FailureAfterPrefix ==
    Sourced =>
        LET k == FailsOn
        IN  /\ (k > 0 /\ listing.requested >= k) <=> listing.state = "failed"
            /\ listing.state = "failed" =>
                  /\ Len(listing.received) = k - 1
                  /\ \A i \in 1..(k - 1) :
                        listing.received[i] = FromRecord(listing.cls, listing.records[i]).inst
                  /\ listing.requested = k => listing.last = FailureOf(k)
                  /\ listing.requested > k => listing.last = "StopIteration"
            /\ (k > 0 /\ listing.requested < k) =>
                  /\ Len(listing.received) = listing.requested
                  /\ \A i \in 1..listing.requested :
                        listing.received[i] = FromRecord(listing.cls, listing.records[i]).inst

\* a list operation that delivered two different models, failed with the
\* transport's error on the third record, and was asked once more
C11_Witness ==
    /\ Sourced
    /\ listing.of = "list_artifacts"
    /\ Len(listing.records) = 2
    /\ service.ends = "ResourceExhausted"
    /\ listing.state = "failed"
    /\ Len(listing.received) = 2
    /\ listing.received[1] # listing.received[2]
    /\ listing.requested = 4
    /\ listing.last = "StopIteration"

\* the list calls in the log that the current invocation made
RequestsOfCall == {i \in 1..Len(requests) : requests[i].call = gen.call}

\* C12 as stated: each list operation of the metadata client makes exactly one
\* remote list request per invocation, never a second one, and a failure of
\* that request reaches the caller as the same error.
C12_OneRequestPerInvocation ==
    (gen # None /\ listing # None /\ listing.of # "from_records") =>
        /\ Cardinality(RequestsOfCall) = 1
        /\ (service # None /\ service.call \in TransportErrors) =>
              /\ listing.state = "failed"
              /\ listing.received = <<>>
              /\ listing.requested = 1 => listing.last = service.call

\* C12, amended: an invocation of a list operation makes no remote request
\* when it is called; it makes its one list request when the first element is
\* requested (none if the service client cannot be built, whose error is then
\* raised), and never a second one, whatever is requested later; a transport
\* failure of that request is raised from the request of the first element as
\* the same error, and nothing is delivered.
C12_OneRequestOnFirstNext ==
    (gen # None /\ listing # None /\ listing.of # "from_records") =>
        /\ ~gen.started => (RequestsOfCall = {} /\ listing.requested = 0)
        /\ gen.started =>
              /\ listing.requested >= 1
              /\ Cardinality(RequestsOfCall) = (IF service.client = "ok" THEN 1 ELSE 0)
              /\ \A i \in RequestsOfCall : requests[i].request = RequestOf(client, gen)
        /\ \A i, j \in 1..Len(requests) : requests[i].call = requests[j].call => i = j
        /\ Len(requests) <= gen.call
        /\ (service # None /\ service.call \in TransportErrors) =>
              /\ listing.state = "failed"
              /\ listing.received = <<>>
              /\ listing.requested = 1 => listing.last = service.call
        /\ (service # None /\ service.client # "ok") =>
              /\ listing.state = "failed"
              /\ listing.requested = 1 => listing.last = service.client

\* the second invocation's list request failed with a transport error, which
\* the consumer got from its first next(); asked again, no other request was made
C12_Witness ==
    /\ gen # None /\ listing # None
    /\ listing.of = "list_pipeline_runs"
    /\ gen.call = 2
    /\ gen.started
    /\ service.call = "PermissionDenied"
    /\ listing.requested = 2
    /\ listing.state = "failed"
    /\ Len(requests) = 2
    /\ requests[2].call = 2

-----------------------------------------------------------------------------
(* expr.py: expression objects by identity *)

\* An object of the heap is the record its constructor builds; the _exprs of
\* an And / Or object hold references (addresses of the heap), as the tuple
\* of a Python object holds references to its operands.

\* the expression tree reached from address a
RECURSIVE Deref(_, _)
Deref(h, a) ==
    IF h[a].kind \in {"And", "Or"}
    THEN [h[a] EXCEPT !.exprs = [i \in DOMAIN h[a].exprs |-> Deref(h, h[a].exprs[i])]]
    ELSE h[a]

\* str(e) of the object at address a
StrAt(h, a) == Str(Deref(h, a))

\* self & other on a heap where & adds the operand to an And node it is
\* applied to and returns that node (not what the code does)
AndAppliedExtending(h, self, other) ==
    IF h[self].kind = "And"
    THEN [heap |-> [h EXCEPT ![self].exprs = Append(@, other)], result |-> self]
    ELSE [heap |-> Append(h, ExprAnd(self, other)), result |-> Len(h) + 1]

\* self & other: Expr.__and__ returns And(self, other), a new object
AndApplied(h, self, other) ==
    [heap |-> Append(h, ExprAnd(self, other)), result |-> Len(h) + 1]

\* self | other: Expr.__or__ returns Or(self, other), a new object
OrApplied(h, self, other) ==
    [heap |-> Append(h, ExprOr(self, other)), result |-> Len(h) + 1]

-----------------------------------------------------------------------------
(* A caller combining expressions *)

\* expression objects alive at once
MaxObjects == 4

\* what the caller notes of an application: the operator, the operands, the
\* object returned, and str() of every object alive before it
Application(op, self, other, made, h) ==
    [op |-> op, self |-> self, other |-> other, result |-> made.result,
     size |-> Len(h), before |-> [a \in 1..Len(h) |-> StrAt(h, a)]]

InitHeap ==
    /\ heap = <<>>
    /\ applied = <<>>
    /\ IdleExpr /\ IdleRec /\ IdleStream /\ IdleClient /\ IdleList /\ IdleFrame /\ IdleFn

AllocEquals ==
    /\ Len(heap) < MaxObjects
    /\ heap' = Append(heap, equals(<<"k">>, <<"v">>))
    /\ UNCHANGED <<applied, exprVars, recVars, stream, cliVars, listVars, frameVars, fnVars>>

AllocInContext ==
    /\ Len(heap) < MaxObjects
    /\ heap' = Append(heap, in_context(<<"c">>))
    /\ UNCHANGED <<applied, exprVars, recVars, stream, cliVars, listVars, frameVars, fnVars>>

AllocHasParentContext ==
    /\ Len(heap) < MaxObjects
    /\ heap' = Append(heap, has_parent_context(<<"p">>))
    /\ UNCHANGED <<applied, exprVars, recVars, stream, cliVars, listVars, frameVars, fnVars>>

\* x & y for two objects the caller holds (x and y may be the same object)
ApplyAnd ==
    /\ Len(heap) < MaxObjects
    /\ \E x, y \in 1..Len(heap) :
          LET made == AndApplied(heap, x, y)
          IN  /\ heap' = made.heap
              /\ applied' = Append(applied, Application("And", x, y, made, heap))
    /\ UNCHANGED <<exprVars, recVars, stream, cliVars, listVars, frameVars, fnVars>>

\* x | y
ApplyOr ==
    /\ Len(heap) < MaxObjects
    /\ \E x, y \in 1..Len(heap) :
          LET made == OrApplied(heap, x, y)
          IN  /\ heap' = made.heap
              /\ applied' = Append(applied, Application("Or", x, y, made, heap))
    /\ UNCHANGED <<exprVars, recVars, stream, cliVars, listVars, frameVars, fnVars>>

NextHeap ==
    \/ AllocEquals
    \/ AllocInContext
    \/ AllocHasParentContext
    \/ ApplyAnd
    \/ ApplyOr

SpecHeap == InitHeap /\ [][NextHeap]_vars

\* the word between the operands of a node
SepOf(op) == IF op = "And" THEN <<" ", "A", "N", "D", " ">> ELSE <<" ", "O", "R", " ">>

\* C13: x & y and x | y return a new And / Or node whose operands are exactly
\* (x, y) in that order, and leave both operands unchanged: after any sequence
\* of applications every object renders as it did before each of them; a
\* chain x & y & z is ((x AND y) AND z), a node in a node, not a longer node.
C13_NewNodeOperandsUnchanged ==
    \A n \in 1..Len(applied) :
        LET e == applied[n]
        IN  /\ e.result = e.size + 1
            /\ e.result <= Len(heap)
            /\ heap[e.result].kind = e.op
            /\ heap[e.result].exprs = <<e.self, e.other>>
            /\ \A a \in 1..e.size : StrAt(heap, a) = e.before[a]
            /\ StrAt(heap, e.result) =
                  <<"(">> \o e.before[e.self] \o SepOf(e.op) \o e.before[e.other] \o <<")">>
            /\ \A m \in 1..(n - 1) :
                  (e.self = applied[m].result) =>
                      StrAt(heap, e.result) =
                          <<"(">> \o <<"(">> \o applied[m].before[applied[m].self]
                              \o SepOf(applied[m].op) \o applied[m].before[applied[m].other]
                              \o <<")">> \o SepOf(e.op) \o e.before[e.other] \o <<")">>

\* x & y & z on leaves x # y: the second & was applied to the node the first
\* returned, and z is a leaf
C13_Witness ==
    /\ Len(applied) = 2
    /\ applied[1].op = "And" /\ applied[2].op = "And"
    /\ applied[2].self = applied[1].result
    /\ applied[1].self # applied[1].other
    /\ applied[2].other # applied[1].result
    /\ heap[applied[2].other].kind \notin {"And", "Or"}
    /\ Len(heap[applied[2].result].exprs) = 2

-----------------------------------------------------------------------------
(* model.py: to_dataframe *)

\* A Python dict is a sequence of <<key, value>> pairs in insertion order,
\* with distinct keys; a value is a scalar or a dict.
Val(x) == [t |-> "val", v |-> x]
Dict(items) == [t |-> "dict", items |-> items]
IsDict(v) == v.t = "dict"

\* the missing value of a DataFrame cell
NaN == [t |-> "NaN"]

\* position of key k in the items, 0 when absent
RECURSIVE KeyIndex(_, _, _)
KeyIndex(items, k, i) ==
    IF i > Len(items) THEN 0
    ELSE IF items[i][1] = k THEN i
    ELSE KeyIndex(items, k, i + 1)

\* d[k] = v on the items: replaced in place, or added at the end
SetItem(items, k, v) ==
    LET i == KeyIndex(items, k, 1)
    IN  IF i = 0 THEN Append(items, <<k, v>>) ELSE [items EXCEPT ![i] = <<k, v>>]

\* {**a, **b}
RECURSIVE Update(_, _)
Update(a, b) ==
    IF b = <<>> THEN a
    ELSE Update(SetItem(a, b[1][1], b[1][2]), Tail(b))

\* the items whose value is / is not a dict
RECURSIVE SelectItems(_, _)
SelectItems(items, dicts) ==
    IF items = <<>> THEN <<>>
    ELSE IF IsDict(items[1][2]) = dicts
         THEN <<items[1]>> \o SelectItems(Tail(items), dicts)
         ELSE SelectItems(Tail(items), dicts)

\* pandas _normalise_json: the leaves of nested dicts under dotted keys
RECURSIVE NormaliseJson(_, _, _)
NormaliseJson(items, key_string, normalized) ==
    IF items = <<>> THEN normalized
    ELSE LET key     == items[1][1]
             value   == items[1][2]
             new_key == IF key_string = "" THEN key ELSE key_string \o "." \o key
             done    == IF IsDict(value)
                        THEN NormaliseJson(value.items, new_key, normalized)
                        ELSE SetItem(normalized, new_key, value)
         IN  NormaliseJson(Tail(items), key_string, done)

\* pandas _normalise_json_ordered: the top-level scalars, then the flattened
\* dict-valued entries
NormaliseJsonOrdered(items) ==
    Update(SelectItems(items, FALSE), NormaliseJson(SelectItems(items, TRUE), "", <<>>))

\* the keys of all rows in order of first appearance
RECURSIVE ColumnsOf(_, _)
ColumnsOf(rows, seen) ==
    IF rows = <<>> THEN seen
    ELSE LET keys == [i \in DOMAIN rows[1] |-> rows[1][i][1]]
             more == SelectSeq(keys, LAMBDA k : \A j \in DOMAIN seen : seen[j] # k)
         IN  ColumnsOf(Tail(rows), seen \o more)

\* pd.DataFrame(list of dicts): one row per dict, a column per key, NaN where
\* a dict has no such key
DataFrame(rows) ==
    LET columns == ColumnsOf(rows, <<>>)
    IN  [columns |-> columns,
         rows    |-> [r \in DOMAIN rows |->
                        [c \in DOMAIN columns |->
                            LET i == KeyIndex(rows[r], columns[c], 1)
                            IN  IF i = 0 THEN NaN ELSE rows[r][i][2]]]]

\* to_dataframe that flattens whatever normalize says (not what the code does)
ToDataFrameFlat(records, normalize) ==
    DataFrame([r \in DOMAIN records |-> NormaliseJsonOrdered(records[r])])

\* to_dataframe(records, normalize): records holds r.__dict__ of each instance
ToDataFrame(records, normalize) ==
    IF normalize
    THEN DataFrame([r \in DOMAIN records |-> NormaliseJsonOrdered(records[r])])
    ELSE DataFrame(records)

-----------------------------------------------------------------------------
(* A caller of to_dataframe *)

\* most instances handed to to_dataframe
MaxRows == 3

\* the attributes of the model classes, in the order of their dataclass
PipelineAttrs ==
    <<"name", "display_name", "etag", "create_time", "update_time",
      "schema_title", "schema_version">>
PipelineRunAttrs ==
    <<"name", "display_name", "etag", "create_time", "update_time",
      "parent_contexts", "schema_title", "schema_version", "metadata", "pipeline_name">>
ArtifactAttrs ==
    <<"name", "display_name", "uri", "etag", "create_time", "update_time", "state",
      "description", "schema_title", "schema_version", "metadata", "pipeline_name",
      "pipeline_run">>

\* __dict__ of an instance: every attribute a scalar of its own, metadata a dict
VarsOf(attrs, tag, metadata) ==
    [i \in DOMAIN attrs |->
        IF attrs[i] = "metadata" THEN <<attrs[i], Dict(metadata)>>
        ELSE <<attrs[i], Val(<<tag, attrs[i]>>)>>]

Instances ==
    {VarsOf(PipelineAttrs, 1, <<>>),
     VarsOf(PipelineAttrs, 2, <<>>),
     VarsOf(PipelineRunAttrs, 3, <<>>),
     VarsOf(PipelineRunAttrs, 4, << <<"b", Val(2)>> >>),
     VarsOf(ArtifactAttrs, 5, << <<"a", Val(1)>> >>),
     VarsOf(ArtifactAttrs, 6, << <<"a", Val(1)>>, <<"n", Dict(<< <<"c", Val(3)>> >>)>> >>)}

\* the arguments of the call: a sequence of instances and the normalize flag
InitFrame ==
    /\ \E records \in ListsUpTo(Instances, MaxRows), normalize \in BOOLEAN :
          instances = [records |-> records, normalize |-> normalize]
    /\ frame = None
    /\ IdleExpr /\ IdleRec /\ IdleStream /\ IdleClient /\ IdleList /\ IdleHeap /\ IdleFn

CallToDataFrame ==
    /\ frame = None
    /\ frame' = ToDataFrame(instances.records, instances.normalize)
    /\ UNCHANGED <<instances, exprVars, recVars, stream, cliVars, listVars, heapVars, fnVars>>

NextFrame == CallToDataFrame

SpecFrame == InitFrame /\ [][NextFrame]_vars

\* the attribute names of an instance
AttrNames(d) == {d[i][1] : i \in DOMAIN d}

\* the scalars inside a dict with their dotted paths, as <<path, value>>
RECURSIVE Leaves(_, _)
Leaves(items, prefix) ==
    UNION { IF IsDict(items[i][2])
            THEN Leaves(items[i][2].items, prefix \o items[i][1] \o ".")
            ELSE {<<prefix \o items[i][1], items[i][2]>>} : i \in DOMAIN items }

\* the entries a row is expected to have for an instance
Entries(d, normalize) ==
    IF normalize THEN Leaves(d, "") ELSE {<<d[i][1], d[i][2]>> : i \in DOMAIN d}

\* C14: to_dataframe yields one row per instance, in input order, with the
\* column set equal to the union of the instances' attribute names (for
\* instances of one type: that type's attribute names); with normalize false a
\* mapping-valued field such as metadata stays one column, with normalize true
\* it is replaced by dotted columns metadata.<key>; a cell for an attribute the
\* instance lacks is an absent value.
C14_RowsAndColumns ==
    frame # None =>
        LET recs == instances.records
            norm == instances.normalize
            cols == {frame.columns[c] : c \in DOMAIN frame.columns}
        IN  /\ Len(frame.rows) = Len(recs)
            /\ \A c, e \in DOMAIN frame.columns : frame.columns[c] = frame.columns[e] => c = e
            /\ cols = UNION {{en[1] : en \in Entries(recs[r], norm)} : r \in DOMAIN recs}
            /\ ~norm => cols = UNION {AttrNames(recs[r]) : r \in DOMAIN recs}
            /\ \A r \in DOMAIN recs :
                  /\ DOMAIN frame.rows[r] = DOMAIN frame.columns
                  /\ \A c \in DOMAIN frame.columns :
                        LET here == {en \in Entries(recs[r], norm) : en[1] = frame.columns[c]}
                        IN  IF here = {} THEN frame.rows[r][c] = NaN
                            ELSE here = {<<frame.columns[c], frame.rows[r][c]>>}
            /\ \A r \in DOMAIN recs :
                  \A i \in DOMAIN recs[r] :
                      (recs[r][i][1] = "metadata") =>
                          IF norm
                          THEN /\ "metadata" \notin cols
                               /\ \A m \in DOMAIN recs[r][i][2].items :
                                     LET key   == recs[r][i][2].items[m][1]
                                         value == recs[r][i][2].items[m][2]
                                     IN  IF IsDict(value)
                                         THEN \A n \in DOMAIN value.items :
                                                  ("metadata." \o key \o "." \o value.items[n][1]) \in cols
                                         ELSE ("metadata." \o key) \in cols
                          ELSE /\ "metadata" \in cols
                               /\ \E c \in DOMAIN frame.columns :
                                     /\ frame.columns[c] = "metadata"
                                     /\ frame.rows[r][c] = recs[r][i][2]

\* a Pipeline, then an Artifact with metadata {a, n: {c}}, then a PipelineRun
\* with metadata {b}, normalized: dotted columns, and absent cells in each row
C14_Witness ==
    /\ frame # None
    /\ instances.normalize
    /\ Len(instances.records) = 3
    /\ AttrNames(instances.records[1]) # AttrNames(instances.records[2])
    /\ \E c, e, g \in DOMAIN frame.columns :
          /\ frame.columns[c] = "metadata.a"
          /\ frame.columns[e] = "metadata.n.c"
          /\ frame.columns[g] = "metadata.b"
          /\ frame.rows[1][c] = NaN
          /\ frame.rows[2][c] = Val(1)
          /\ frame.rows[2][e] = Val(3)
          /\ frame.rows[2][g] = NaN
          /\ frame.rows[3][g] = Val(2)

-----------------------------------------------------------------------------
(* cloud-function/main.py: process_request *)

\* the configuration read from os.environ when the module is loaded
GCP_PROJECT_ID == "env-project"
GCP_REGION == "env-region"
GCP_ZONE == "env-zone"
PIPELINE_NAME == "env-pipeline-name"
PIPELINE_SERVICE_ACCOUNT == "env-service-account"
ARTIFACT_BUCKET == "env-artifact-bucket"
INPUT_BUCKET == "env-input-bucket"
OUTPUT_BUCKET == "env-output-bucket"
ARTIFACT_PATH == "env-artifact-path"
RUN_PATH == "env-run-path"

\* dict.get(k, default) / k in d / d[k] on the items of a dict
HasKey(items, k) == KeyIndex(items, k, 1) # 0
GetItem(items, k, default) ==
    IF HasKey(items, k) THEN items[KeyIndex(items, k, 1)][2] ELSE default

\* An exception object: its class, its message attribute (None when the class
\* has none) and str(exc). The google.api_core errors carry .message; the
\* built-in exceptions and yaml's ParserError do not.
GoogleError(type, message) == [type |-> type, message |-> PyStr(message), str |-> message]
PlainError(type, text) == [type |-> type, message |-> None, str |-> text]

\* the base classes of an exception class: the built-in exceptions and those
\* of json and io, those of google.api_core.exceptions and those of yaml
Bases(type) ==
    CASE type = "Exception" -> {}
      [] type \in {"ValueError", "LookupError", "TypeError", "AttributeError", "OSError",
                   "ArithmeticError", "RuntimeError", "GoogleAPIError", "YAMLError"} -> {"Exception"}
      [] type \in {"JSONDecodeError", "UnicodeError"} -> {"ValueError"}
      [] type \in {"UnicodeDecodeError", "UnicodeEncodeError", "UnicodeTranslateError"} -> {"UnicodeError"}
      [] type = "UnsupportedOperation" -> {"OSError", "ValueError"}
      [] type \in {"KeyError", "IndexError"} -> {"LookupError"}
      [] type \in {"FileNotFoundError", "PermissionError", "TimeoutError"} -> {"OSError"}
      [] type \in {"RecursionError", "NotImplementedError"} -> {"RuntimeError"}
      [] type \in {"ZeroDivisionError", "OverflowError"} -> {"ArithmeticError"}
      [] type \in {"GoogleAPICallError", "RetryError"} -> {"GoogleAPIError"}
      [] type \in {"Redirection", "ClientError", "ServerError"} -> {"GoogleAPICallError"}
      [] type \in {"BadRequest", "Unauthorized", "Forbidden", "NotFound", "MethodNotAllowed",
                   "Conflict", "TooManyRequests", "Cancelled"} -> {"ClientError"}
      [] type \in {"InvalidArgument", "FailedPrecondition", "OutOfRange"} -> {"BadRequest"}
      [] type = "Unauthenticated" -> {"Unauthorized"}
      [] type = "PermissionDenied" -> {"Forbidden"}
      [] type \in {"AlreadyExists", "Aborted"} -> {"Conflict"}
      [] type = "ResourceExhausted" -> {"TooManyRequests"}
      [] type \in {"InternalServerError", "MethodNotImplemented", "BadGateway",
                   "ServiceUnavailable", "GatewayTimeout"} -> {"ServerError"}
      [] type = "DeadlineExceeded" -> {"GatewayTimeout"}
      [] type = "MarkedYAMLError" -> {"YAMLError"}
      [] type \in {"ParserError", "ScannerError", "ComposerError", "ConstructorError"} -> {"MarkedYAMLError"}

\* the classes an exception of class type is an instance of: the class and
\* the ancestors of its bases
RECURSIVE Mro(_)
Mro(type) == {type} \cup UNION {Mro(b) : b \in Bases(type)}

\* isinstance(exc, classes): the class of exc or one of its bases is named
IsInstance(exc, classes) == Mro(exc.type) \cap classes # {}

\* what process_request gives its caller
Returned(payload, status) == [t |-> "return", payload |-> payload, status |-> status]
Escaped(type) == [t |-> "raise", exc |-> type]

\* ErrorResponse(...).to_flask(): the payload leaves out status_code
ErrorResponse(type, title, detail, status_code) ==
    Returned([type |-> type, title |-> title, detail |-> detail], status_code)

\* SuccessResponse(...).to_flask()
SuccessResponse(project_id, region, job_id) ==
    Returned([project_id |-> project_id, region |-> region, job_id |-> job_id], 200)

MissingOpen == <<"M", "i", "s", "s", "i", "n", "g", " ", "r", "e", "q", "u", "i", "r", "e", "d", " ", "p", "a", "r", "a", "m", "e", "t", "e", "r", " ", "'">>
\* the characters of a key of the request or of a parameter name
NameChars(k) ==
    CASE k = "x"               -> <<"x">>
      [] k = "model_name"      -> <<"m", "o", "d", "e", "l", "_", "n", "a", "m", "e">>
      [] k = "model_version"   -> <<"m", "o", "d", "e", "l", "_", "v", "e", "r", "s", "i", "o", "n">>
      [] k = "project_id"      -> <<"p", "r", "o", "j", "e", "c", "t", "_", "i", "d">>
      [] k = "region"          -> <<"r", "e", "g", "i", "o", "n">>
      [] k = "zone"            -> <<"z", "o", "n", "e">>
      [] k = "artifact_bucket" -> <<"a", "r", "t", "i", "f", "a", "c", "t", "_", "b", "u", "c", "k", "e", "t">>
      [] k = "artifact_path"   -> <<"a", "r", "t", "i", "f", "a", "c", "t", "_", "p", "a", "t", "h">>
      [] k = "input_bucket"    -> <<"i", "n", "p", "u", "t", "_", "b", "u", "c", "k", "e", "t">>
      [] k = "output_bucket"   -> <<"o", "u", "t", "p", "u", "t", "_", "b", "u", "c", "k", "e", "t">>

ServiceAccountPrefix == <<"Y", "o", "u", " ", "d", "o", " ", "n", "o", "t", " ", "h", "a", "v", "e", " ", "p", "e", "r", "m", "i", "s", "s", "i", "o", "n", " ", "t", "o", " ", "a", "c", "t", " ", "a", "s", " ", "s", "e", "r", "v", "i", "c", "e", "_", "a", "c", "c", "o", "u", "n", "t">>

\* a JSON value that is not an object: its JSON text, with the name of the
\* Python type get_json gives it
Typed(type_name, text) == [t |-> "val", v |-> text, type |-> type_name]

\* type(v).__name__ of a JSON value
TypeName(v) ==
    IF v = None THEN <<"N", "o", "n", "e", "T", "y", "p", "e">>
    ELSE IF IsDict(v) THEN <<"d", "i", "c", "t">>
    ELSE v.type

\* str(exc) of the TypeError of {**pipeline_parameters} on a value that is
\* not a mapping: '<type>' object is not a mapping
NotAMapping(v) ==
    <<"'">> \o TypeName(v)
            \o <<"'", " ", "o", "b", "j", "e", "c", "t", " ", "i", "s", " ", "n", "o", "t", " ", "a", " ", "m", "a", "p", "p", "i", "n", "g">>

\* f"Missing required parameter '{exc.args[0]}'"
MissingDetail(key) ==
    MissingOpen \o NameChars(key) \o <<"'">>

\* s.replace("\n", "\\n").replace("\r", "\\r")
RECURSIVE EscapeNewlines(_)
EscapeNewlines(s) ==
    IF s = <<>> THEN <<>>
    ELSE (IF s[1] = "\n" THEN <<"\\", "n">>
          ELSE IF s[1] = "\r" THEN <<"\\", "r">>
          ELSE <<s[1]>>) \o EscapeNewlines(Tail(s))

\* the longest detail of an unexpected_error
DetailLimit == 989

\* s[:989]
Truncated(s) == IF Len(s) <= DetailLimit THEN s ELSE SubSeq(s, 1, DetailLimit)

\* the except clauses of process_request, in their order; reading exc.message
\* of an exception that has no such attribute raises AttributeError in the
\* handler, which no clause of this try statement catches
Handled(exc) ==
    IF IsInstance(exc, {"NotFound"})
    THEN IF exc.message = None THEN Escaped("AttributeError")
         ELSE ErrorResponse("pipeline_not_found", "The specified pipeline could not be found",
                            exc.message.s, 500)
    ELSE IF IsInstance(exc, {"Forbidden"})
    THEN IF exc.message = None THEN Escaped("AttributeError")
         ELSE ErrorResponse("pipeline_access_denied", "Insufficient permissions to fetch the pipeline",
                            exc.message.s, 500)
    ELSE IF IsInstance(exc, {"ParserError", "KeyError"})
    THEN IF exc.message = None THEN Escaped("AttributeError")
         ELSE ErrorResponse("invalid_pipeline", "An error occurred while parsing the pipeline",
                            exc.message.s, 500)
    ELSE IF IsInstance(exc, {"InvalidArgument", "ValueError"})
    THEN IF exc.message = None THEN Escaped("AttributeError")
         ELSE IF IsAt(exc.message.s, ServiceAccountPrefix, 1)
         THEN ErrorResponse("invalid_pipeline_service_account",
                            "An invalid service account was used for running the pipeline",
                            exc.message.s, 500)
         ELSE ErrorResponse("invalid_pipeline_parameters",
                            "Invalid parameters were passed to the pipeline",
                            exc.message.s, 400)
    ELSE ErrorResponse("unexpected_error", "An unexpected error occurred",
                       Truncated(EscapeNewlines(IF exc.message = None THEN exc.str ELSE exc.message.s)),
                       500)

\* the project parameters of the function's environment
ProjectParameters ==
    << <<"project_id", Val(GCP_PROJECT_ID)>>,
       <<"region", Val(GCP_REGION)>>,
       <<"zone", Val(GCP_ZONE)>>,
       <<"artifact_bucket", Val(ARTIFACT_BUCKET)>>,
       <<"artifact_path", Val(ARTIFACT_PATH)>>,
       <<"input_bucket", Val(INPUT_BUCKET)>>,
       <<"output_bucket", Val(OUTPUT_BUCKET)>> >>

\* env_parameters: the project parameters the pipeline declares
EnvParameters(declared) ==
    SelectSeq(ProjectParameters, LAMBDA item : item[1] \in declared)

\* parameter_values with the request's parameters laid over the environment's
\* (not what the code does)
ParameterValuesRequestLast(pipeline_parameters, env_parameters) ==
    Update(env_parameters, pipeline_parameters)

\* parameter_values = {**pipeline_parameters, **env_parameters}
ParameterValues(pipeline_parameters, env_parameters) ==
    Update(pipeline_parameters, env_parameters)

\* gs://{ARTIFACT_BUCKET}/models/{model_name}/{model_version}/{pipeline_name}.json
PipelineUrl(model_name, model_version, pipeline_name) ==
    [bucket |-> ARTIFACT_BUCKET, model_name |-> model_name,
     model_version |-> model_version, pipeline_name |-> pipeline_name]

\* client.download_blob_to_file(pipeline_url, file_obj=pipeline_file): the
\* definition at pipeline_url is written into the temporary file of that name
Download(pipeline_url, pipeline_file) == [url |-> pipeline_url, file_obj |-> pipeline_file]

\* the PipelineJob that is built and submitted; pipeline_path is the name of
\* the local temporary file that get_pipeline yields
PipelineJob(pipeline_path, parameter_values) ==
    [display_name    |-> PIPELINE_NAME,
     enable_caching  |-> FALSE,
     template_path   |-> pipeline_path,
     parameter_values |-> parameter_values,
     pipeline_root   |-> [bucket |-> ARTIFACT_BUCKET, path |-> RUN_PATH],
     location        |-> GCP_REGION,
     service_account |-> PIPELINE_SERVICE_ACCOUNT]

\* a call of a service that returned value, or raised exc
Ok(value) == [ok |-> TRUE, value |-> value]
Fails(exc) == [ok |-> FALSE, exc |-> exc]

\* the ValueError of PipelineJob(...) for a parameter name that the pipeline
\* does not accept
UndeclaredParameter(k) ==
    PlainError("ValueError",
               <<"T", "h", "e", " ", "p", "i", "p", "e", "l", "i", "n", "e", " ", "p", "a", "r", "a", "m", "e", "t", "e", "r", " ">>
                   \o NameChars(k)
                   \o <<" ", "i", "s", " ", "n", "o", "t", " ", "f", "o", "u", "n", "d", " ", "i", "n", " ", "t", "h", "e", " ", "p", "i", "p", "e", "l", "i", "n", "e", " ", "j", "o", "b", " ", "i", "n", "p", "u", "t", " ", "d", "e", "f", "i", "n", "i", "t", "i", "o", "n", "s", ".">>)

\* PipelineJob(..., parameter_values=...) on a pipeline that declares the
\* parameters `declared`: the first parameter that the pipeline does not
\* accept (the case the filter of env_parameters avoids) is refused with a
\* ValueError; otherwise the job is built, or the constructor raises, as
\* `construct` says
Constructed(parameter_values, declared, construct) ==
    LET refused == SelectSeq(parameter_values, LAMBDA item : item[1] \notin declared)
    IN  IF refused # <<>> THEN Fails(UndeclaredParameter(refused[1][1])) ELSE construct

\* What process_request does with request body `body` when the services
\* behave as `world` says: tmp (the name tempfile.NamedTemporaryFile gives the
\* local file), fetch (the download of the pipeline definition into it),
\* declared (get_pipeline_parameters: the parameter names of the pipeline),
\* construct (PipelineJob(...) on parameters the pipeline accepts: the job's
\* project and id) and submit each
\* return or raise. The result is the response with the downloads made
\* and the jobs on which submit was called on the way.
Outcome(resp, downloads_, jobs_) == [response |-> resp, downloads |-> downloads_, jobs |-> jobs_]

ProcessRequest(body, world) ==
    IF body.t = "invalid" THEN Outcome(Escaped("BadRequest"), <<>>, <<>>)
    ELSE IF ~IsDict(body) THEN Outcome(Escaped("TypeError"), <<>>, <<>>)
    ELSE IF ~HasKey(body.items, "model_name")
    THEN Outcome(ErrorResponse("missing_parameter", "Missing required parameter",
                               MissingDetail("model_name"), 400), <<>>, <<>>)
    ELSE IF ~HasKey(body.items, "model_version")
    THEN Outcome(ErrorResponse("missing_parameter", "Missing required parameter",
                               MissingDetail("model_version"), 400), <<>>, <<>>)
    ELSE
    LET model_name          == GetItem(body.items, "model_name", None)
        model_version       == GetItem(body.items, "model_version", None)
        pipeline_name       == GetItem(body.items, "pipeline_name", Val("pipeline"))
        pipeline_parameters == GetItem(body.items, "pipeline_parameters", Dict(<<>>))
        pipeline_path       == world.tmp
        url                 == Download(PipelineUrl(model_name, model_version, pipeline_name),
                                        pipeline_path)
    IN  IF ~world.fetch.ok THEN Outcome(Handled(world.fetch.exc), <<url>>, <<>>)
        ELSE IF ~world.declared.ok THEN Outcome(Handled(world.declared.exc), <<url>>, <<>>)
        ELSE IF ~IsDict(pipeline_parameters)
        THEN Outcome(Handled(PlainError("TypeError", NotAMapping(pipeline_parameters))), <<url>>, <<>>)
        ELSE
        LET job == PipelineJob(pipeline_path, ParameterValues(pipeline_parameters.items,
                                                              EnvParameters(world.declared.value)))
            made == Constructed(job.parameter_values, world.declared.value, world.construct)
        IN  IF ~made.ok THEN Outcome(Handled(made.exc), <<url>>, <<>>)
            ELSE IF ~world.submit.ok THEN Outcome(Handled(world.submit.exc), <<url>>, <<job>>)
            ELSE Outcome(SuccessResponse(made.value.project, job.location, made.value.job_id),
                         <<url>>, <<job>>)

-----------------------------------------------------------------------------
(* A caller of the cloud function and the services behind it *)

\* request bodies: not JSON, a JSON list, and JSON objects with and without
\* each of the four keys
ParameterDicts ==
    {Dict(<<>>),
     Dict(<< <<"x", Val(1)>> >>),
     Dict(<< <<"project_id", Val("caller-project")>> >>),
     Dict(<< <<"region", Val("caller-region")>>, <<"x", Val(1)>>, <<"project_id", Val("caller-project")>> >>)}

\* pipeline_parameters that are not JSON objects: a list, a string, a number
\* and null
NonMappings ==
    {Typed(<<"l", "i", "s", "t">>, <<"[", "1", "]">>),
     Typed(<<"s", "t", "r">>, <<"\"", "s", "\"">>),
     Typed(<<"i", "n", "t">>, <<"7">>),
     Typed(<<"b", "o", "o", "l">>, <<"t", "r", "u", "e">>),
     None}

Bodies ==
    {[t |-> "invalid"], Val(<<1>>)}
        \cup {Dict(name \o version \o pipeline \o parameters) :
                name       \in {<<>>, << <<"model_name", Val("m")>> >>},
                version    \in {<<>>, << <<"model_version", Val("1")>> >>},
                pipeline   \in {<<>>, << <<"pipeline_name", Val("p2")>> >>},
                parameters \in {<<>>} \cup {<< <<"pipeline_parameters", d>> >> : d \in ParameterDicts}
                                      \cup {<< <<"pipeline_parameters", v>> >> : v \in NonMappings}}

\* the exceptions the services raise: the errors of the google API, and the
\* errors of parsing a pipeline definition
NotFoundError == GoogleError("NotFound", <<"n", "f">>)
ForbiddenError == GoogleError("Forbidden", <<"f", "b">>)
UnavailableError == GoogleError("ServiceUnavailable", <<"a", "\n", "b">>)
FetchErrors == {NotFoundError, ForbiddenError, UnavailableError}
ParameterErrors ==
    {PlainError("JSONDecodeError", <<"j">>),
     PlainError("UnicodeDecodeError", <<"u">>),
     PlainError("KeyError", <<"'", "k", "'">>),
     PlainError("TypeError", <<"a", "\r", "b">>)}
ConstructErrors ==
    {PlainError("ParserError", <<"p">>),
     PlainError("ValueError", <<"v">>),
     PlainError("KeyError", <<"'", "k", "'">>),
     PlainError("TypeError", <<"a", "\r", "b">>)}
SubmitErrors ==
    {GoogleError("InvalidArgument", ServiceAccountPrefix \o <<" ", "x">>),
     GoogleError("InvalidArgument", <<"b", "a", "d">>),
     GoogleError("PermissionDenied", <<"p", "d">>),
     NotFoundError, ForbiddenError, UnavailableError}

\* the parameter names a pipeline definition declares
DeclaredSets == {{}, {"x"}, {"project_id"}, {"project_id", "region", "zone", "x"}}

\* the names tempfile.NamedTemporaryFile() may give the local file
TempNames == {"/tmp/tmpa", "/tmp/tmpb"}

TheJob == Ok([project |-> "job-project", job_id |-> "job-1"])

\* how the services behave during one request; construct is what
\* PipelineJob(...) does with parameters the pipeline accepts (Constructed
\* refuses the others whatever construct says)
Worlds ==
    {[tmp |-> tmp, fetch |-> Fails(e), declared |-> Ok({}), construct |-> TheJob, submit |-> Ok(None)] :
        e \in FetchErrors, tmp \in TempNames}
  \cup
    {[tmp |-> tmp, fetch |-> Ok(None), declared |-> Fails(e), construct |-> TheJob, submit |-> Ok(None)] :
        e \in ParameterErrors, tmp \in TempNames}
  \cup
    {[tmp |-> tmp, fetch |-> Ok(None), declared |-> Ok(d), construct |-> Fails(e), submit |-> Ok(None)] :
        d \in DeclaredSets, e \in ConstructErrors, tmp \in TempNames}
  \cup
    {[tmp |-> tmp, fetch |-> Ok(None), declared |-> Ok(d), construct |-> TheJob, submit |-> Fails(e)] :
        d \in DeclaredSets, e \in SubmitErrors, tmp \in TempNames}
  \cup
    {[tmp |-> tmp, fetch |-> Ok(None), declared |-> Ok(d), construct |-> TheJob, submit |-> Ok(None)] :
        d \in DeclaredSets, tmp \in TempNames}

\* a request arrives
InitFn ==
    /\ \E body \in Bodies, world \in Worlds : invocation = [body |-> body, world |-> world]
    /\ response = None
    /\ downloads = <<>>
    /\ jobs = <<>>
    /\ IdleExpr /\ IdleRec /\ IdleStream /\ IdleClient /\ IdleList /\ IdleHeap /\ IdleFrame

\* process_request(request)
HandleRequest ==
    /\ response = None
    /\ LET out == ProcessRequest(invocation.body, invocation.world)
       IN  /\ response' = out.response
           /\ downloads' = out.downloads
           /\ jobs' = out.jobs
    /\ UNCHANGED <<invocation, exprVars, recVars, stream, cliVars, listVars, heapVars, frameVars>>

NextFn == HandleRequest

SpecFn == InitFn /\ [][NextFn]_vars

\* the request is a JSON object
ObjectRequest == invocation # None /\ IsDict(invocation.body)

\* the request lacks model_name or model_version
MissingRequired ==
    /\ ObjectRequest
    /\ ~HasKey(invocation.body.items, "model_name") \/ ~HasKey(invocation.body.items, "model_version")

\* the pipeline_parameters of the request being handled
RequestParameters == GetItem(invocation.body.items, "pipeline_parameters", Dict(<<>>)).items

KeysOf(items) == {items[i][1] : i \in DOMAIN items}

\* some service call of the request raises
SomeCallRaises ==
    LET w == invocation.world
    IN  \/ ~w.fetch.ok \/ ~w.declared.ok \/ ~w.construct.ok \/ ~w.submit.ok
        \/ /\ w.declared.ok
           /\ IsDict(GetItem(invocation.body.items, "pipeline_parameters", Dict(<<>>)))
           /\ ~(KeysOf(RequestParameters) \subseteq w.declared.value)

\* C15: process_request always completes by returning a (payload, status)
\* pair and never lets an exception escape: a request missing model_name or
\* model_version returns 400 missing_parameter without fetching a pipeline or
\* submitting a job, a successful submission returns 200, and every exception
\* raised while fetching the pipeline, reading its parameters or submitting
\* the job becomes an error payload with status 400 or 500. Stated for the
\* requests whose body is a JSON object, the ones the try statements cover.
C15_AlwaysReturnsPair ==
    (response # None /\ ObjectRequest) =>
        /\ response.t = "return"
        /\ response.status \in {200, 400, 500}
        /\ MissingRequired =>
              /\ response.status = 400
              /\ response.payload.type = "missing_parameter"
              /\ downloads = <<>>
              /\ jobs = <<>>
        /\ (ObjectRequest /\ ~MissingRequired /\ SomeCallRaises) =>
              /\ response.status \in {400, 500}
              /\ response.payload.type \in
                    {"pipeline_not_found", "pipeline_access_denied", "invalid_pipeline",
                     "invalid_pipeline_service_account", "invalid_pipeline_parameters",
                     "unexpected_error"}
        /\ (response.status = 200) <=> (jobs # <<>> /\ invocation.world.submit.ok)

\* the keys that the function's environment governs
EnvKeys ==
    {"project_id", "region", "zone", "artifact_bucket", "artifact_path",
     "input_bucket", "output_bucket"}

\* the value the environment has for such a key
EnvValue(k) ==
    CASE k = "project_id"      -> Val("env-project")
      [] k = "region"          -> Val("env-region")
      [] k = "zone"            -> Val("env-zone")
      [] k = "artifact_bucket" -> Val("env-artifact-bucket")
      [] k = "artifact_path"   -> Val("env-artifact-path")
      [] k = "input_bucket"    -> Val("env-input-bucket")
      [] k = "output_bucket"   -> Val("env-output-bucket")

=============================================================================
